---- MODULE Spec2Model ----
(***************************************************************************)
(* Storage layer of the NVS flash key-value store (src/src/Storage.cpp).   *)
(*                                                                         *)
(* The flash is a set of sectors, each holding one Page.  A Page is a      *)
(* sequence of items; every item occupies `span` entries and has an entry  *)
(* state WRITING, WRITTEN or ERASED.  The Page and PageManager classes are *)
(* not part of the sources at hand; they are modelled from their           *)
(* description (sections 4.1 and 4.2 of the specification).  The Storage   *)
(* methods are translated from Storage.cpp.                                *)
(*                                                                         *)
(* Every Storage method is an operator from a context c (the flash, the    *)
(* last error, and the sequence c.tr of flash images after every flash     *)
(* program of the call) to a context.  One action runs one whole method;   *)
(* the PowerCut action stops a method at one of the images of c.tr.        *)
(***************************************************************************)
EXTENDS Integers, Sequences, FiniteSets, TLC

\* ---------------------------------------------------------------- bounds
PageCount == 3          \* sectors of the partition
EntryCount == 5         \* entries of a page (Page::ENTRY_COUNT, scaled down)
MaxOps == 5             \* operations of one run
MaxCutOps == 4          \* operations of one run with power cuts
MaxNsOps == 6           \* calls of one run of the callers that use namespaces
MaxLoop == 6            \* unrolling of the loop of writeMultiPageBlob
NsCount == 2            \* namespace indices of the bitmap (1..254, scaled down)
MaxApiOps == 5          \* calls of one run of the callers of the whole interface
MaxHandles == 2         \* handles the callers hold at a time
MaxIterOps == 7         \* calls of one run of the callers that iterate
MaxBlobOps == 4         \* calls of one run of the callers writing large blobs
MaxTableOps == 4        \* calls of one run of the callers of namespaces and items

\* ------------------------------------------------------------- constants
ENTRY_SIZE == 32
CHUNK_ANY == 255
NS_INDEX == 0
NS_ANY == 255
VER_0_OFFSET == 0
VER_1_OFFSET == 128
VER_ANY == 255
CHUNK_MAX_SIZE == ENTRY_SIZE * (EntryCount - 1)

NullKey == ""           \* key == nullptr
Sectors == 1..PageCount

Min(S) == CHOOSE x \in S : \A y \in S : x <= y
Last(s) == s[Len(s)]

\* ----------------------------------------------------------------- items
NoPay == [id |-> 0, off |-> 0, len |-> 0]
NoIdx == [dataSize |-> 0, chunkCount |-> 0, chunkStart |-> 0]

\* An erased item keeps only the entries it occupies.
Tomb(span) ==
    [ns |-> 0, dt |-> "NONE", key |-> "", ci |-> 0, span |-> span,
     pay |-> NoPay, idx |-> NoIdx, es |-> "ERASED"]

\* Entries of an item of `size` bytes: one header entry, and for the
\* variable length types the payload rounded up to whole entries.
IsVariableLengthType(dt) == dt \in {"STR", "BLOB", "BLOB_DATA"}

SpanOf(dt, size) ==
    IF IsVariableLengthType(dt)
    THEN 1 + ((size + ENTRY_SIZE - 1) \div ENTRY_SIZE)
    ELSE 1

\* A data item: bytes [off, off+len) of the caller's buffer `id`.
DataItem(ns, dt, key, ci, id, off, len) ==
    [ns |-> ns, dt |-> dt, key |-> key, ci |-> ci, span |-> SpanOf(dt, len),
     pay |-> [id |-> id, off |-> off, len |-> len], idx |-> NoIdx,
     es |-> "WRITTEN"]

IdxItem(ns, key, dataSize, chunkCount, chunkStart) ==
    [ns |-> ns, dt |-> "BLOB_IDX", key |-> key, ci |-> CHUNK_ANY, span |-> 1,
     pay |-> NoPay,
     idx |-> [dataSize |-> dataSize, chunkCount |-> chunkCount,
              chunkStart |-> chunkStart],
     es |-> "WRITTEN"]

\* ------------------------------------------------------------------ Page
EmptyPage == [st |-> "UNINITIALIZED", items |-> <<>>]

RECURSIVE SumSpan(_, _)
SumSpan(items, n) ==
    IF n = 0 THEN 0 ELSE items[n].span + SumSpan(items, n - 1)

\* mNextFreeEntry
NextFreeEntry(p) == SumSpan(p.items, Len(p.items))

ErasedEntryCount(p) ==
    LET er == SelectSeq(p.items, LAMBDA it : it.es = "ERASED")
    IN SumSpan(er, Len(er))

Matches(it, ns, dt, key, ci, cs) ==
    /\ it.es = "WRITTEN"
    /\ (ns = NS_ANY \/ it.ns = ns)
    /\ (dt = "ANY" \/ it.dt = dt)
    /\ (key = NullKey \/ it.key = key)
    /\ (ci = CHUNK_ANY \/ it.ci = ci)
    /\ (cs = VER_ANY \/ it.dt # "BLOB_IDX" \/ it.idx.chunkStart = cs)

\* Page::findItem: position of the first match at or after `start`, 0 if none.
PageFindItem(p, ns, dt, key, start, ci, cs) ==
    LET First(hits) == IF hits = {} THEN 0 ELSE Min(hits)
    IN First({i \in start..Len(p.items) : Matches(p.items[i], ns, dt, key, ci, cs)})

\* Page::getVarDataTailroom, in bytes.
GetVarDataTailroom(p) ==
    IF p.st = "UNINITIALIZED" THEN CHUNK_MAX_SIZE
    ELSE IF p.st # "ACTIVE" THEN 0
    ELSE IF NextFreeEntry(p) < EntryCount - 1
         THEN (EntryCount - NextFreeEntry(p) - 1) * ENTRY_SIZE
         ELSE 0

\* Page::writeItem: the error it returns for `it` on p.
PageWriteError(p, it) ==
    IF p.st \notin {"ACTIVE", "FULL", "UNINITIALIZED"} THEN "INVALID_STATE"
    ELSE IF p.st = "FULL" THEN "PAGE_FULL"
    ELSE IF it.pay.len > CHUNK_MAX_SIZE THEN "VALUE_TOO_LONG"
    ELSE IF NextFreeEntry(p) + it.span > EntryCount THEN "PAGE_FULL"
    ELSE "OK"

PageAppend(p, it, es) ==
    [st |-> "ACTIVE", items |-> Append(p.items, [it EXCEPT !.es = es])]

PageSetWritten(p) ==
    [p EXCEPT !.items[Len(p.items)].es = "WRITTEN"]

PageErase(p, i) ==
    [p EXCEPT !.items[i] = Tomb(p.items[i].span)]

\* ----------------------------------------------------------- the context
\* pg: the page of every sector; ord: mPageList, oldest page first (the
\* order of the sequence numbers); fr: the free page list; err: mLastError;
\* tr: the flash images after every program of the running call.
Snap(c) == [pg |-> c.pg, ord |-> c.ord, fr |-> c.fr]

\* cw: the number of BLOB_DATA chunks the call has written.
\* state: mState; buf: the caller's buffer, a sequence of byte ranges; af: an assert of the
\* code was reached with its condition false.
Ctx(f) ==
    [pg |-> f.pg, ord |-> f.ord, fr |-> f.fr, err |-> "OK", tr |-> <<>>,
     buf |-> <<>>, af |-> FALSE, state |-> "ACTIVE", cw |-> 0]

SetErr(c, e) == [c EXCEPT !.err = e]

\* One flash program: sector s becomes page p.
Prog(c, s, p) ==
    LET c1 == [c EXCEPT !.pg[s] = p]
    IN [c1 EXCEPT !.tr = Append(c.tr, Snap(c1))]

GetCurrentPage(c) == Last(c.ord)

\* Page::writeItem on sector s: the entries are allocated as WRITING, the
\* payload is programmed, and the header entry is marked WRITTEN last.
PageWriteItem(c, s, it) ==
    LET e == PageWriteError(c.pg[s], it)
    IN IF e # "OK" THEN SetErr(c, e)
       ELSE LET c1 == Prog(c, s, PageAppend(c.pg[s], it, "WRITING"))
            IN SetErr(Prog(c1, s, PageSetWritten(c1.pg[s])), "OK")

\* Page::eraseItem on sector s.
PageEraseItem(c, s, ns, dt, key, ci, cs) ==
    LET i == PageFindItem(c.pg[s], ns, dt, key, 1, ci, cs)
    IN IF i = 0 THEN SetErr(c, "NOT_FOUND")
       ELSE SetErr(Prog(c, s, PageErase(c.pg[s], i)), "OK")

\* Page::markFull
MarkFull(c, s) ==
    IF c.pg[s].st # "ACTIVE" THEN SetErr(c, "INVALID_STATE")
    ELSE SetErr(Prog(c, s, [c.pg[s] EXCEPT !.st = "FULL"]), "OK")

\* ----------------------------------------------------------- PageManager
\* A free page becomes the ACTIVE tail of the page list.
ActivatePage(c) ==
    LET s == Head(c.fr)
        c1 == [c EXCEPT !.pg[s] = [st |-> "ACTIVE", items |-> <<>>],
                        !.ord = Append(c.ord, s),
                        !.fr = Tail(c.fr)]
    IN [c1 EXCEPT !.tr = Append(c.tr, Snap(c1))]

\* Page::copyItems: the WRITTEN items of sector src, in order, to sector dst.
RECURSIVE CopyItems(_, _, _, _)
CopyItems(c, src, dst, i) ==
    IF i > Len(c.pg[src].items) THEN c
    ELSE LET it == c.pg[src].items[i]
         IN IF it.es = "WRITTEN"
            THEN CopyItems(PageWriteItem(c, dst, it), src, dst, i + 1)
            ELSE CopyItems(c, src, dst, i + 1)

\* The sector is erased and goes back to the free list.
ErasePage(c, s) ==
    LET c1 == [c EXCEPT !.pg[s] = EmptyPage,
                        !.ord = SelectSeq(c.ord, LAMBDA x : x # s),
                        !.fr = Append(c.fr, s)]
    IN [c1 EXCEPT !.tr = Append(c.tr, Snap(c1))]

\* The page garbage collection frees: the one with the most erased entries,
\* the oldest of them; 0 if no page has an erased entry.
GcVictim(c) ==
    LET cand == {i \in 1..Len(c.ord) : ErasedEntryCount(c.pg[c.ord[i]]) > 0}
        best == {i \in cand : \A j \in cand :
                    ErasedEntryCount(c.pg[c.ord[j]]) <= ErasedEntryCount(c.pg[c.ord[i]])}
    IN IF cand = {} THEN 0 ELSE c.ord[Min(best)]

\* PageManager::requestNewPage
RequestNewPage(c) ==
    LET Copy(c2, v) == CopyItems(c2, v, GetCurrentPage(c2), 1)
        Collect(c0, v) ==
            IF v = 0 THEN SetErr(c0, "NOT_ENOUGH_SPACE")
            ELSE SetErr(ErasePage(Copy(ActivatePage(
                     Prog(c0, v, [c0.pg[v] EXCEPT !.st = "FREEING"])), v), v), "OK")
        Request(c0) ==
            IF Len(c0.fr) = 0 THEN SetErr(c0, "INVALID_STATE")
            ELSE IF Len(c0.fr) >= 2 THEN SetErr(ActivatePage(c0), "OK")
            ELSE Collect(c0, GcVictim(c0))
    IN Request(IF c.pg[GetCurrentPage(c)].st = "ACTIVE"
               THEN MarkFull(c, GetCurrentPage(c))
               ELSE c)

\* Position of an item in the log: pages by age, then entries in order.
Older(ord, s1, i1, s2, i2) ==
    LET a == CHOOSE k \in 1..Len(ord) : ord[k] = s1
        b == CHOOSE k \in 1..Len(ord) : ord[k] = s2
    IN a < b \/ (a = b /\ i1 < i2)

SameTuple(x, y) ==
    /\ x.ns = y.ns
    /\ x.dt = y.dt
    /\ x.key = y.key
    /\ x.ci = y.ci

InOrd(f) == {f.ord[k] : k \in 1..Len(f.ord)}

\* Load: an entry still WRITING was torn by the power cut and counts as
\* erased; of two WRITTEN items with the same tuple the older is erased.
LoadEntries(f) ==
    LET torn == [s \in Sectors |->
                    [f.pg[s] EXCEPT !.items =
                        [i \in 1..Len(f.pg[s].items) |->
                            IF f.pg[s].items[i].es = "WRITING"
                            THEN Tomb(f.pg[s].items[i].span)
                            ELSE f.pg[s].items[i]]]]
        dup(s, i) ==
            /\ torn[s].items[i].es = "WRITTEN"
            /\ \E s2 \in InOrd(f) : \E i2 \in 1..Len(torn[s2].items) :
                  /\ torn[s2].items[i2].es = "WRITTEN"
                  /\ SameTuple(torn[s].items[i], torn[s2].items[i2])
                  /\ Older(f.ord, s, i, s2, i2)
    IN [f EXCEPT !.pg =
           [s \in Sectors |->
               IF s \in InOrd(f)
               THEN [torn[s] EXCEPT !.items =
                        [i \in 1..Len(torn[s].items) |->
                            IF dup(s, i) THEN Tomb(torn[s].items[i].span)
                            ELSE torn[s].items[i]]]
               ELSE torn[s]]]

\* Load: a page left FREEING is an interrupted garbage collection; the copy
\* is redone into an empty tail page and the page is erased.
LoadFreeing(f) ==
    LET fz == {s \in InOrd(f) : f.pg[s].st = "FREEING"}
        Redo(c1, v) == Snap(ErasePage(CopyItems(c1, v, GetCurrentPage(c1), 1), v))
    IN IF fz = {} THEN f
       ELSE Redo(IF f.pg[Last(f.ord)].st = "ACTIVE"
                 THEN [Ctx(f) EXCEPT !.pg[Last(f.ord)] = [st |-> "ACTIVE", items |-> <<>>]]
                 ELSE ActivatePage(Ctx(f)),
                 CHOOSE s \in fz : TRUE)

\* Load: of several ACTIVE pages the newest stays ACTIVE.
LoadActive(f) ==
    [f EXCEPT !.pg =
        [s \in Sectors |->
            IF s \in InOrd(f) /\ s # Last(f.ord) /\ f.pg[s].st = "ACTIVE"
            THEN [f.pg[s] EXCEPT !.st = "FULL"]
            ELSE f.pg[s]]]

\* PageManager::load: the flash image after the mount, and its error.
PageManagerLoad(f) ==
    LET Loaded(f1) ==
            [f |-> IF Len(f1.ord) = 0 THEN Snap(ActivatePage(Ctx(f1))) ELSE LoadActive(f1),
             err |-> "OK"]
    IN IF PageCount < 2 THEN [f |-> f, err |-> "NO_FREE_PAGES"]
       ELSE Loaded(LoadEntries(LoadFreeing(f)))

\* --------------------------------------------------------------- Storage
\* Storage::findItem: the first page of the list holding a match, and the
\* position of the match on it; page 0 if there is none.
FindItem(c, ns, dt, key, ci, cs) ==
    LET On(s) == [page |-> s, i |-> PageFindItem(c.pg[s], ns, dt, key, 1, ci, cs)]
        Found(hits) == IF hits = {} THEN [page |-> 0, i |-> 0] ELSE On(c.ord[Min(hits)])
    IN Found({k \in 1..Len(c.ord) :
                 PageFindItem(c.pg[c.ord[k]], ns, dt, key, 1, ci, cs) # 0})

FoundItem(c, f) == c.pg[f.page].items[f.i]

\* Page::cmpItem: the payload of the first match on the page against bytes
\* [off, off+len) of buffer id.
PageCmpItem(p, ns, dt, key, id, off, len, ci) ==
    LET Cmp(i) ==
            IF i = 0 THEN "NOT_FOUND"
            ELSE IF p.items[i].pay = [id |-> id, off |-> off, len |-> len] THEN "OK"
            ELSE "CONTENT_DIFFERS"
    IN Cmp(PageFindItem(p, ns, dt, key, 1, ci, VER_ANY))

\* The loop of cmpMultiPageBlob: the error it ends with and the offset reached.
RECURSIVE CmpChunks(_, _, _, _, _, _, _, _)
CmpChunks(c, ns, key, id, chunkStart, chunkCount, chunkNum, offset) ==
    IF chunkNum >= chunkCount THEN [err |-> "OK", offset |-> offset]
    ELSE LET ci == (chunkStart + chunkNum) % 256
             Rest(e, len) ==
                 IF e # "OK" THEN [err |-> e, offset |-> offset]
                 ELSE CmpChunks(c, ns, key, id, chunkStart, chunkCount,
                                chunkNum + 1, offset + len)
             Chunk(f, len) ==
                 Rest(PageCmpItem(c.pg[f.page], ns, "BLOB_DATA", key, id, offset, len, ci),
                      len)
             Cmp(f) ==
                 IF f.page = 0 THEN [err |-> "NOT_FOUND", offset |-> offset]
                 ELSE Chunk(f, FoundItem(c, f).pay.len)
         IN Cmp(FindItem(c, ns, "BLOB_DATA", key, ci, VER_ANY))

\* cmpMultiPageBlob comparing the size with the wrong field of the index.
CmpMultiPageBlobWrongField(c, ns, key, id, dataSize) ==
    LET Chunks(x) ==
            IF dataSize # x.chunkCount THEN FALSE
            ELSE CmpChunks(c, ns, key, id, x.chunkStart, x.chunkCount, 0, 0).err = "OK"
        Cmp(f) == IF f.page = 0 THEN FALSE ELSE Chunks(FoundItem(c, f).idx)
    IN Cmp(FindItem(c, ns, "BLOB_IDX", key, CHUNK_ANY, VER_ANY))

\* Storage::cmpMultiPageBlob
CmpMultiPageBlob(c, ns, key, id, dataSize) ==
    LET Chunks(x) ==
            IF dataSize # x.dataSize THEN FALSE
            ELSE CmpChunks(c, ns, key, id, x.chunkStart, x.chunkCount, 0, 0).err = "OK"
        Cmp(f) == IF f.page = 0 THEN FALSE ELSE Chunks(FoundItem(c, f).idx)
    IN Cmp(FindItem(c, ns, "BLOB_IDX", key, CHUNK_ANY, VER_ANY))

\* Storage::eraseMultiPageBlob, the loop over the chunks.
RECURSIVE EraseChunks(_, _, _, _, _, _)
EraseChunks(c, ns, key, chunkStart, chunkCount, chunkNum) ==
    IF chunkNum >= chunkCount THEN SetErr(c, "OK")
    ELSE LET ci == (chunkStart + chunkNum) % 256
             Rest(c1) ==
                 IF c1.err # "OK" THEN c1
                 ELSE EraseChunks(c1, ns, key, chunkStart, chunkCount, chunkNum + 1)
             Erase(f) ==
                 IF f.page = 0
                 THEN EraseChunks(c, ns, key, chunkStart, chunkCount, chunkNum + 1)
                 ELSE Rest(PageEraseItem(c, f.page, ns, "BLOB_DATA", key, ci, VER_ANY))
         IN Erase(FindItem(c, ns, "BLOB_DATA", key, ci, VER_ANY))

\* An eraseMultiPageBlob that erases the chunks first and the index last.
EraseMultiPageBlobChunksFirst(c, ns, key, chunkStart) ==
    LET Index(c1) ==
            IF c1.err # "OK" THEN c1
            ELSE PageEraseItem(c1, FindItem(c1, ns, "BLOB_IDX", key, CHUNK_ANY,
                                            chunkStart).page,
                               ns, "BLOB_IDX", key, CHUNK_ANY, chunkStart)
        Chunks(x) ==
            Index(EraseChunks(c, ns, key,
                              IF chunkStart = VER_ANY THEN x.chunkStart ELSE chunkStart,
                              x.chunkCount, 0))
        Found(f) ==
            IF f.page = 0 THEN SetErr(c, "NOT_FOUND") ELSE Chunks(FoundItem(c, f).idx)
    IN IF c.state # "ACTIVE" THEN SetErr(c, "NOT_INITIALIZED")
       ELSE Found(FindItem(c, ns, "BLOB_IDX", key, CHUNK_ANY, chunkStart))

\* Storage::eraseMultiPageBlob: the index first, then its chunks.
EraseMultiPageBlob(c, ns, key, chunkStart) ==
    LET Chunks(c1, x) ==
            IF c1.err # "OK" THEN c1
            ELSE EraseChunks(c1, ns, key,
                             IF chunkStart = VER_ANY THEN x.chunkStart ELSE chunkStart,
                             x.chunkCount, 0)
        Index(f) ==
            IF f.page = 0 THEN SetErr(c, "NOT_FOUND")
            ELSE Chunks(PageEraseItem(c, f.page, ns, "BLOB_IDX", key, CHUNK_ANY, chunkStart),
                        FoundItem(c, f).idx)
    IN IF c.state # "ACTIVE" THEN SetErr(c, "NOT_INITIALIZED")
       ELSE Index(FindItem(c, ns, "BLOB_IDX", key, CHUNK_ANY, chunkStart))

\* The rollback of writeMultiPageBlob: on the ii-th used page the item
\* (ns, BLOB_DATA, key, ii) is erased, ii counting from 0; the result of
\* Page::eraseItem is dropped.
RECURSIVE EraseUsedPages(_, _, _, _, _)
EraseUsedPages(c, usedPages, ns, key, ii) ==
    IF ii >= Len(usedPages) THEN c
    ELSE LET c1 == PageEraseItem(c, usedPages[ii + 1], ns, "BLOB_DATA", key, ii, VER_ANY)
         IN EraseUsedPages(SetErr(c1, c.err), usedPages, ns, key, ii + 1)

\* markFull unless the page is FULL already, then requestNewPage.
FullAndNewPage(c, s) ==
    LET Request(c1) == IF c1.err # "OK" THEN c1 ELSE RequestNewPage(c1)
    IN Request(IF c.pg[s].st # "FULL" THEN MarkFull(c, s) ELSE SetErr(c, "OK"))

\* A pass that writes a chunk also when the page has no tailroom.
WriteBlobPassNoTailroomTest(w, ns, key, id, dataSize, chunkStart, nomem) ==
    LET page == GetCurrentPage(w.c)
        tailroom == GetVarDataTailroom(w.c.pg[page])
        chunkSize == IF w.remainingSize > tailroom THEN tailroom ELSE w.remainingSize
        remainingSize == w.remainingSize - chunkSize
        chunkCount == (w.chunkCount + 1) % 256
        \* the page has too little room for a first chunk: a new page
        Skipped(c2) ==
            IF c2.err # "OK" THEN [w EXCEPT !.c = c2, !.out = "return"]
            ELSE IF GetVarDataTailroom(c2.pg[GetCurrentPage(c2)]) = tailroom
            THEN [w EXCEPT !.c = SetErr(c2, "NOT_ENOUGH_SPACE"), !.out = "return"]
            ELSE [w EXCEPT !.c = c2, !.out = "continue"]
        \* the index is written after the last chunk
        Indexed(w2, c3) ==
            [w2 EXCEPT !.c = [c3 EXCEPT !.af = w2.c.af \/ c3.err = "PAGE_FULL"],
                       !.out = "break"]
        \* the page of the chunk is on the list of used pages
        Listed(w1, c2) ==
            IF c2.err # "OK"
            THEN [w1 EXCEPT !.c = c2, !.usedPages = Append(w.usedPages, page),
                            !.out = "break"]
            ELSE IF remainingSize = 0
            THEN Indexed([w1 EXCEPT !.c = c2, !.usedPages = Append(w.usedPages, page),
                                    !.offset = w.offset + chunkSize],
                         PageWriteItem(c2, GetCurrentPage(c2),
                             IdxItem(ns, key, dataSize, chunkCount, chunkStart)))
            ELSE [w1 EXCEPT !.c = c2, !.usedPages = Append(w.usedPages, page),
                            !.offset = w.offset + chunkSize, !.out = "continue"]
        \* the chunk is written
        Written(w1) ==
            IF w1.c.err # "OK" THEN [w1 EXCEPT !.out = "break"]
            ELSE IF nomem = chunkCount
            THEN [w1 EXCEPT !.c = SetErr(w1.c, "NO_MEM"), !.out = "break"]
            ELSE Listed(w1, IF remainingSize # 0 \/ (tailroom - chunkSize) < ENTRY_SIZE
                            THEN FullAndNewPage(w1.c, page)
                            ELSE w1.c)
        Chunk(c1) ==
            Written([w EXCEPT !.c = [c1 EXCEPT !.af = w.c.af \/ c1.err = "PAGE_FULL",
                                               !.cw = IF c1.err = "OK" THEN w.c.cw + 1
                                                      ELSE w.c.cw],
                              !.chunkCount = chunkCount,
                              !.remainingSize = remainingSize])
    IN IF w.chunkCount = 0 /\ tailroom < dataSize /\ tailroom < CHUNK_MAX_SIZE \div 10
       THEN Skipped(FullAndNewPage(w.c, page))
       ELSE Chunk(PageWriteItem(w.c, page,
                      DataItem(ns, "BLOB_DATA", key, (chunkStart + w.chunkCount) % 256,
                               id, w.offset, chunkSize)))

\* One pass of the do-while loop of writeMultiPageBlob.  w.out says how the
\* pass ends: "continue", "break" (to the rollback) or "return".  nomem is
\* the chunk whose UsedPageNode cannot be allocated (0: none).
WriteBlobPass(w, ns, key, id, dataSize, chunkStart, nomem) ==
    LET page == GetCurrentPage(w.c)
        tailroom == GetVarDataTailroom(w.c.pg[page])
        chunkSize == IF w.remainingSize > tailroom THEN tailroom ELSE w.remainingSize
        remainingSize == w.remainingSize - chunkSize
        chunkCount == (w.chunkCount + 1) % 256
        \* the page has too little room for a first chunk: a new page
        Skipped(c2) ==
            IF c2.err # "OK" THEN [w EXCEPT !.c = c2, !.out = "return"]
            ELSE IF GetVarDataTailroom(c2.pg[GetCurrentPage(c2)]) = tailroom
            THEN [w EXCEPT !.c = SetErr(c2, "NOT_ENOUGH_SPACE"), !.out = "return"]
            ELSE [w EXCEPT !.c = c2, !.out = "continue"]
        \* the index is written after the last chunk
        Indexed(w2, c3) ==
            [w2 EXCEPT !.c = [c3 EXCEPT !.af = w2.c.af \/ c3.err = "PAGE_FULL"],
                       !.out = "break"]
        \* the page of the chunk is on the list of used pages
        Listed(w1, c2) ==
            IF c2.err # "OK"
            THEN [w1 EXCEPT !.c = c2, !.usedPages = Append(w.usedPages, page),
                            !.out = "break"]
            ELSE IF remainingSize = 0
            THEN Indexed([w1 EXCEPT !.c = c2, !.usedPages = Append(w.usedPages, page),
                                    !.offset = w.offset + chunkSize],
                         PageWriteItem(c2, GetCurrentPage(c2),
                             IdxItem(ns, key, dataSize, chunkCount, chunkStart)))
            ELSE [w1 EXCEPT !.c = c2, !.usedPages = Append(w.usedPages, page),
                            !.offset = w.offset + chunkSize, !.out = "continue"]
        \* the chunk is written
        Written(w1) ==
            IF w1.c.err # "OK" THEN [w1 EXCEPT !.out = "break"]
            ELSE IF nomem = chunkCount
            THEN [w1 EXCEPT !.c = SetErr(w1.c, "NO_MEM"), !.out = "break"]
            ELSE Listed(w1, IF remainingSize # 0 \/ (tailroom - chunkSize) < ENTRY_SIZE
                            THEN FullAndNewPage(w1.c, page)
                            ELSE w1.c)
        Chunk(c1) ==
            Written([w EXCEPT !.c = [c1 EXCEPT !.af = w.c.af \/ c1.err = "PAGE_FULL",
                                               !.cw = IF c1.err = "OK" THEN w.c.cw + 1
                                                      ELSE w.c.cw],
                              !.chunkCount = chunkCount,
                              !.remainingSize = remainingSize])
    IN IF w.chunkCount = 0 /\ tailroom < dataSize /\ tailroom < CHUNK_MAX_SIZE \div 10
       THEN Skipped(FullAndNewPage(w.c, page))
       ELSE IF tailroom = 0
       THEN [w EXCEPT !.c = SetErr(w.c, "NOT_ENOUGH_SPACE"), !.out = "break"]
       ELSE Chunk(PageWriteItem(w.c, page,
                      DataItem(ns, "BLOB_DATA", key, (chunkStart + w.chunkCount) % 256,
                               id, w.offset, chunkSize)))

\* The loop; a pass count beyond MaxLoop ends as "diverge".
RECURSIVE WriteBlobLoop(_, _, _, _, _, _, _, _)
WriteBlobLoop(w, ns, key, id, dataSize, chunkStart, nomem, n) ==
    LET Again(w1) ==
            IF w1.out = "continue"
            THEN WriteBlobLoop(w1, ns, key, id, dataSize, chunkStart, nomem, n + 1)
            ELSE w1
    IN IF n > MaxLoop THEN [w EXCEPT !.out = "diverge"]
       ELSE Again(WriteBlobPass(w, ns, key, id, dataSize, chunkStart, nomem))

Min2(a, b) == IF a < b THEN a ELSE b

\* Storage::writeMultiPageBlob
WriteMultiPageBlob(c, ns, key, id, dataSize, chunkStart, nomem) ==
    LET max_pages == Min2(PageCount - 1, (CHUNK_ANY - 1) \div 2)
        Done(w) ==
            IF w.out = "return" THEN w.c
            ELSE IF w.out = "diverge" THEN SetErr(w.c, "DIVERGE")
            ELSE IF w.c.err # "OK"
            THEN EraseUsedPages(w.c, w.usedPages, ns, key, 0)
            ELSE w.c
    IN IF dataSize > max_pages * CHUNK_MAX_SIZE THEN SetErr(c, "VALUE_TOO_LONG")
       ELSE Done(WriteBlobLoop([c |-> c, chunkCount |-> 0, usedPages |-> <<>>,
                                remainingSize |-> dataSize, offset |-> 0,
                                out |-> "continue"],
                               ns, key, id, dataSize, chunkStart, nomem, 1))

\* The other version offset.
ToggleVer(prevStart) ==
    IF prevStart = VER_1_OFFSET THEN VER_0_OFFSET ELSE VER_1_OFFSET

\* Storage::writeItem, the branch for BLOB.  f is the index found for the key.
WriteItemBlob(c, f, ns, key, id, dataSize, nomem) ==
    LET prevStart == IF f.page # 0 THEN FoundItem(c, f).idx.chunkStart
                     ELSE VER_0_OFFSET
        nextStart == IF f.page # 0 THEN ToggleVer(prevStart) ELSE VER_0_OFFSET
        Erased(c2) == IF c2.err # "OK" THEN c2 ELSE SetErr(c2, "OK")
        \* a blob of the format without index
        EraseOld(c1, g) ==
            IF g.page = 0 THEN SetErr(c1, "OK")
            ELSE Erased(PageEraseItem(c1, g.page, ns, "BLOB", key, CHUNK_ANY, VER_ANY))
        Written(c1) ==
            IF c1.err # "OK"
            THEN IF c1.err = "PAGE_FULL" THEN SetErr(c1, "NOT_ENOUGH_SPACE") ELSE c1
            ELSE IF f.page # 0
            THEN Erased(EraseMultiPageBlob(c1, ns, key, prevStart))
            ELSE EraseOld(c1, FindItem(c1, ns, "BLOB", key, CHUNK_ANY, VER_ANY))
    IN IF f.page # 0 /\ CmpMultiPageBlob(c, ns, key, id, dataSize) THEN SetErr(c, "OK")
       ELSE Written(WriteMultiPageBlob(
                [c EXCEPT !.af = c.af \/ prevStart \notin {VER_0_OFFSET, VER_1_OFFSET}],
                ns, key, id, dataSize, nextStart, nomem))

\* writeItem returning the error of the second Page::writeItem as it is.
WriteItemPlainSurfacing(c, f, ns, dt, key, id, dataSize) ==
    LET it == DataItem(ns, dt, key, CHUNK_ANY, id, 0, dataSize)
        page == GetCurrentPage(c)
        Erased(c5) == IF c5.err # "OK" THEN c5 ELSE SetErr(c5, "OK")
        EraseOld(c2, g) ==
            Erased(PageEraseItem(c2, g.page, ns, dt, key, CHUNK_ANY, VER_ANY))
        Written(c2) ==
            IF c2.err # "OK" \/ f.page = 0 THEN c2
            ELSE EraseOld(c2, IF c2.pg[f.page].st = "UNINITIALIZED"
                              THEN FindItem(c2, ns, dt, key, CHUNK_ANY, VER_ANY)
                              ELSE f)
        NewPage(c3) ==
            IF c3.err # "OK" THEN c3
            ELSE PageWriteItem(c3, GetCurrentPage(c3), it)
        Tried(c1) ==
            IF c1.err = "PAGE_FULL" THEN Written(NewPage(FullAndNewPage(c1, page)))
            ELSE Written(c1)
    IN IF /\ f.page # 0
          /\ PageCmpItem(c.pg[f.page], ns, dt, key, id, 0, dataSize, CHUNK_ANY) = "OK"
       THEN SetErr(c, "OK")
       ELSE Tried(PageWriteItem(c, page, it))

\* A writeItem that erases the old item before it writes the new one.
WriteItemPlainEraseFirst(c, f, ns, dt, key, id, dataSize) ==
    LET it == DataItem(ns, dt, key, CHUNK_ANY, id, 0, dataSize)
        page == GetCurrentPage(c)
        Erased(c5) == IF c5.err # "OK" THEN c5 ELSE SetErr(c5, "OK")
        EraseOld(c2, g) ==
            Erased(PageEraseItem(c2, g.page, ns, dt, key, CHUNK_ANY, VER_ANY))
        Written(c2) == c2
        Retried(c4) == IF c4.err = "PAGE_FULL" THEN SetErr(c4, "NOT_ENOUGH_SPACE") ELSE c4
        NewPage(c3) ==
            IF c3.err # "OK" THEN c3
            ELSE Retried(PageWriteItem(c3, GetCurrentPage(c3), it))
        Tried(c1) ==
            IF c1.err = "PAGE_FULL" THEN Written(NewPage(FullAndNewPage(c1, page)))
            ELSE Written(c1)
    IN IF /\ f.page # 0
          /\ PageCmpItem(c.pg[f.page], ns, dt, key, id, 0, dataSize, CHUNK_ANY) = "OK"
       THEN SetErr(c, "OK")
       ELSE IF f.page # 0
       THEN Tried(PageWriteItem(SetErr(EraseOld(c, f), "OK"), page, it))
       ELSE Tried(PageWriteItem(c, page, it))

\* Storage::writeItem, the branch for the other types.
WriteItemPlain(c, f, ns, dt, key, id, dataSize) ==
    LET it == DataItem(ns, dt, key, CHUNK_ANY, id, 0, dataSize)
        page == GetCurrentPage(c)
        Erased(c5) == IF c5.err # "OK" THEN c5 ELSE SetErr(c5, "OK")
        EraseOld(c2, g) ==
            Erased(PageEraseItem(c2, g.page, ns, dt, key, CHUNK_ANY, VER_ANY))
        \* the old item is erased; it is looked up again if garbage
        \* collection has freed its page
        Written(c2) ==
            IF c2.err # "OK" \/ f.page = 0 THEN c2
            ELSE EraseOld(c2, IF c2.pg[f.page].st = "UNINITIALIZED"
                              THEN FindItem(c2, ns, dt, key, CHUNK_ANY, VER_ANY)
                              ELSE f)
        Retried(c4) == IF c4.err = "PAGE_FULL" THEN SetErr(c4, "NOT_ENOUGH_SPACE") ELSE c4
        NewPage(c3) ==
            IF c3.err # "OK" THEN c3
            ELSE Retried(PageWriteItem(c3, GetCurrentPage(c3), it))
        Tried(c1) ==
            IF c1.err = "PAGE_FULL" THEN Written(NewPage(FullAndNewPage(c1, page)))
            ELSE Written(c1)
    IN IF /\ f.page # 0
          /\ PageCmpItem(c.pg[f.page], ns, dt, key, id, 0, dataSize, CHUNK_ANY) = "OK"
       THEN SetErr(c, "OK")
       ELSE Tried(PageWriteItem(c, page, it))

\* Storage::writeItem
WriteItem(c, ns, dt, key, id, dataSize, nomem) ==
    LET Write(f) ==
            IF dt = "BLOB" THEN WriteItemBlob(c, f, ns, key, id, dataSize, nomem)
            ELSE WriteItemPlain(c, f, ns, dt, key, id, dataSize)
    IN IF c.state # "ACTIVE" THEN SetErr(c, "NOT_INITIALIZED")
       ELSE Write(FindItem(c, ns, IF dt = "BLOB" THEN "BLOB_IDX" ELSE dt, key,
                           CHUNK_ANY, VER_ANY))

\* The loop of readMultiPageBlob: the chunks are appended to the buffer.
RECURSIVE ReadChunks(_, _, _, _, _, _, _, _)
ReadChunks(c, ns, key, chunkStart, chunkCount, chunkNum, offset, buf) ==
    LET Rest(pay) ==
            ReadChunks(c, ns, key, chunkStart, chunkCount, chunkNum + 1,
                       offset + pay.len, Append(buf, pay))
        Read(f) ==
            IF f.page = 0 THEN [err |-> "NOT_FOUND", offset |-> offset, buf |-> buf]
            ELSE Rest(FoundItem(c, f).pay)
    IN IF chunkNum >= chunkCount THEN [err |-> "OK", offset |-> offset, buf |-> buf]
       ELSE Read(FindItem(c, ns, "BLOB_DATA", key, (chunkStart + chunkNum) % 256, VER_ANY))

\* A readMultiPageBlob without the cleanup of an incomplete blob.
ReadMultiPageBlobNoCleanup(c, ns, key, dataSize) ==
    LET Done(c0, r) ==
            IF r.err = "OK"
            THEN [c0 EXCEPT !.err = "OK", !.buf = r.buf,
                            !.af = c0.af \/ r.offset # dataSize]
            ELSE SetErr(c0, "NOT_FOUND")
        Chunks(x) ==
            Done([c EXCEPT !.af = c.af \/ dataSize # x.dataSize],
                 ReadChunks(c, ns, key, x.chunkStart, x.chunkCount, 0, 0, <<>>))
        Read(f) == IF f.page = 0 THEN SetErr(c, "NOT_FOUND") ELSE Chunks(FoundItem(c, f).idx)
    IN Read(FindItem(c, ns, "BLOB_IDX", key, CHUNK_ANY, VER_ANY))

\* Storage::readMultiPageBlob
ReadMultiPageBlob(c, ns, key, dataSize) ==
    LET Done(c0, r) ==
            IF r.err = "OK"
            THEN [c0 EXCEPT !.err = "OK", !.buf = r.buf,
                            !.af = c0.af \/ r.offset # dataSize]
            ELSE SetErr(EraseMultiPageBlob(c0, ns, key, VER_ANY), "NOT_FOUND")
        Chunks(x) ==
            Done([c EXCEPT !.af = c.af \/ dataSize # x.dataSize],
                 ReadChunks(c, ns, key, x.chunkStart, x.chunkCount, 0, 0, <<>>))
        Read(f) == IF f.page = 0 THEN SetErr(c, "NOT_FOUND") ELSE Chunks(FoundItem(c, f).idx)
    IN Read(FindItem(c, ns, "BLOB_IDX", key, CHUNK_ANY, VER_ANY))

\* Page::readItem: the payload of the first match on the page.
PageReadItem(c, s, ns, dt, key, dataSize) ==
    LET Read(i) ==
            IF i = 0 THEN SetErr(c, "NOT_FOUND")
            ELSE IF c.pg[s].items[i].pay.len # dataSize THEN SetErr(c, "INVALID_LENGTH")
            ELSE [c EXCEPT !.err = "OK", !.buf = <<c.pg[s].items[i].pay>>]
    IN Read(PageFindItem(c.pg[s], ns, dt, key, 1, CHUNK_ANY, VER_ANY))

\* Storage::readItem
ReadItem(c, ns, dt, key, dataSize) ==
    LET Read(c1, f) ==
            IF f.page = 0 THEN SetErr(c1, "NOT_FOUND")
            ELSE PageReadItem(c1, f.page, ns, dt, key, dataSize)
        Plain(c1) ==
            IF dt = "BLOB" /\ c1.err # "NOT_FOUND" THEN c1
            ELSE Read(c1, FindItem(c1, ns, dt, key, CHUNK_ANY, VER_ANY))
    IN IF c.state # "ACTIVE" THEN SetErr(c, "NOT_INITIALIZED")
       ELSE Plain(IF dt = "BLOB" THEN ReadMultiPageBlob(c, ns, key, dataSize) ELSE c)

\* Storage::getItemDataSize: the error and the size.
GetItemDataSize(c, ns, dt, key) ==
    LET Size(f, g) ==
            IF f.page # 0 THEN [err |-> "OK", dataSize |-> FoundItem(c, f).pay.len]
            ELSE IF dt # "BLOB" \/ g.page = 0 THEN [err |-> "NOT_FOUND", dataSize |-> 0]
            ELSE [err |-> "OK", dataSize |-> FoundItem(c, g).idx.dataSize]
    IN IF c.state # "ACTIVE" THEN [err |-> "NOT_INITIALIZED", dataSize |-> 0]
       ELSE Size(FindItem(c, ns, dt, key, CHUNK_ANY, VER_ANY),
                 FindItem(c, ns, "BLOB_IDX", key, CHUNK_ANY, VER_ANY))

\* Storage::eraseItem
EraseItem(c, ns, dt, key) ==
    LET Erase(f) ==
            IF f.page = 0 THEN SetErr(c, "NOT_FOUND")
            ELSE IF FoundItem(c, f).dt \in {"BLOB_DATA", "BLOB_IDX"}
            THEN EraseMultiPageBlob(c, ns, key, VER_ANY)
            ELSE PageEraseItem(c, f.page, ns, dt, key, CHUNK_ANY, VER_ANY)
    IN IF c.state # "ACTIVE" THEN SetErr(c, "NOT_INITIALIZED")
       ELSE IF dt = "BLOB" THEN EraseMultiPageBlob(c, ns, key, VER_ANY)
       ELSE Erase(FindItem(c, ns, dt, key, CHUNK_ANY, VER_ANY))

\* Storage::eraseNamespace: on every page, eraseItem until NOT_FOUND.
RECURSIVE EraseAllOnPage(_, _, _)
EraseAllOnPage(c, s, ns) ==
    LET Again(c1) ==
            IF c1.err = "NOT_FOUND" THEN c
            ELSE IF c1.err # "OK" THEN c1
            ELSE EraseAllOnPage(c1, s, ns)
    IN Again(PageEraseItem(c, s, ns, "ANY", NullKey, CHUNK_ANY, VER_ANY))

RECURSIVE EraseNamespacePages(_, _, _)
EraseNamespacePages(c, ns, k) ==
    LET Rest(c1) == IF c1.err # "OK" THEN c1 ELSE EraseNamespacePages(c1, ns, k + 1)
    IN IF k > Len(c.ord) THEN SetErr(c, "OK")
       ELSE Rest(EraseAllOnPage(SetErr(c, "OK"), c.ord[k], ns))

\* eraseNamespace visiting the current page only.
EraseNamespaceCurrentPage(c, ns) ==
    IF c.state # "ACTIVE" THEN SetErr(c, "NOT_INITIALIZED")
    ELSE EraseNamespacePages(c, ns, Len(c.ord))

EraseNamespace(c, ns) ==
    IF c.state # "ACTIVE" THEN SetErr(c, "NOT_INITIALIZED")
    ELSE EraseNamespacePages(c, ns, 1)

\* Storage::populateBlobIndices: the BLOB_IDX items of all pages, in order.
RECURSIVE PopulateBlobIndices(_, _, _)
PopulateBlobIndices(c, k, i) ==
    LET Entry(it) ==
            [key |-> it.key, nsIndex |-> it.ns, chunkStart |-> it.idx.chunkStart,
             chunkCount |-> it.idx.chunkCount]
        Rest(j) ==
            IF j = 0 THEN PopulateBlobIndices(c, k + 1, 1)
            ELSE <<Entry(c.pg[c.ord[k]].items[j])>> \o PopulateBlobIndices(c, k, j + 1)
    IN IF k > Len(c.ord) THEN <<>>
       ELSE Rest(PageFindItem(c.pg[c.ord[k]], NS_ANY, "BLOB_IDX", NullKey, i,
                              CHUNK_ANY, VER_ANY))

\* The find_if without the test of the chunk range.
CoveredByKey(it, e) ==
    /\ it.key = e.key
    /\ it.ns = e.nsIndex

\* The find_if of eraseOrphanDataBlobs.
CoveredBy(it, e) ==
    /\ it.key = e.key
    /\ it.ns = e.nsIndex
    /\ it.ci >= e.chunkStart
    /\ it.ci < e.chunkStart + e.chunkCount

\* Storage::eraseOrphanDataBlobs
RECURSIVE EraseOrphanDataBlobs(_, _, _, _)
EraseOrphanDataBlobs(c, blobIdxList, k, i) ==
    LET Erase(s, it) ==
            IF \E n \in 1..Len(blobIdxList) : CoveredBy(it, blobIdxList[n]) THEN c
            ELSE SetErr(PageEraseItem(c, s, it.ns, it.dt, it.key, it.ci, VER_ANY), c.err)
        Rest(s, j) ==
            IF j = 0 THEN EraseOrphanDataBlobs(c, blobIdxList, k + 1, 1)
            ELSE EraseOrphanDataBlobs(Erase(s, c.pg[s].items[j]), blobIdxList, k, j + 1)
    IN IF k > Len(c.ord) THEN c
       ELSE Rest(c.ord[k],
                 PageFindItem(c.pg[c.ord[k]], NS_ANY, "BLOB_DATA", NullKey, i,
                              CHUNK_ANY, VER_ANY))

\* The namespace list init reads from flash: the U8 items of namespace 0.
RECURSIVE LoadNamespaces(_, _, _)
LoadNamespaces(f, k, i) ==
    LET Entry(it) == [mName |-> it.key, mIndex |-> it.pay.id]
        Rest(j) ==
            IF j = 0 THEN LoadNamespaces(f, k + 1, 1)
            ELSE <<Entry(f.pg[f.ord[k]].items[j])>> \o LoadNamespaces(f, k, j + 1)
    IN IF k > Len(f.ord) THEN <<>>
       ELSE Rest(PageFindItem(f.pg[f.ord[k]], NS_INDEX, "U8", NullKey, i,
                              CHUNK_ANY, VER_ANY))

\* Storage::init.  m is the Storage object: mState, mLastError, mNamespaces,
\* mNamespaceUsage, mHandleCount.  nomem: 1 if a NamespaceEntry, 2 if a
\* BlobIndexNode cannot be allocated, 0 if all allocations succeed.  af: the
\* assert(false) of the branch for handles in use was reached.
StorageInit(f, m, nomem) ==
    LET Usage(nss) == {nss[n].mIndex : n \in 1..Len(nss)} \cup {0, 255}
        Loaded(ld, nss, idx) ==
            IF ld.err # "OK"
            THEN [f |-> ld.f, af |-> FALSE,
                  m |-> [m EXCEPT !.mState = "INVALID", !.mLastError = ld.err]]
            ELSE IF nomem = 1 /\ Len(nss) > 0
            THEN [f |-> ld.f, af |-> FALSE,
                  m |-> [m EXCEPT !.mState = "INVALID", !.mLastError = "NO_MEM",
                                  !.mNamespaces = <<>>, !.mNamespaceUsage = {}]]
            ELSE IF nomem = 2 /\ Len(idx) > 0
            THEN [f |-> ld.f, af |-> FALSE,
                  m |-> [m EXCEPT !.mState = "INVALID", !.mLastError = "NO_MEM",
                                  !.mNamespaces = nss, !.mNamespaceUsage = Usage(nss)]]
            ELSE [f |-> Snap(EraseOrphanDataBlobs(Ctx(ld.f), idx, 1, 1)), af |-> FALSE,
                  m |-> [m EXCEPT !.mState = "ACTIVE", !.mLastError = "OK",
                                  !.mNamespaces = nss, !.mNamespaceUsage = Usage(nss)]]
        Scan(ld) ==
            Loaded(ld, LoadNamespaces(ld.f, 1, 1), PopulateBlobIndices(Ctx(ld.f), 1, 1))
    IN IF m.mHandleCount # 0
       THEN [f |-> f, af |-> TRUE, m |-> [m EXCEPT !.mLastError = "INVALID_STATE"]]
       ELSE Scan(PageManagerLoad(f))

\* createOrOpenNamespace issuing the highest free index.
CreateOrOpenNamespaceHighest(c, m, nsName, canCreate, nomem) ==
    LET hit == {n \in 1..Len(m.mNamespaces) : m.mNamespaces[n].mName = nsName}
        free == {n \in 1..NsCount : n \notin m.mNamespaceUsage}
        Created(c1, ns) ==
            IF c1.err # "OK" THEN [c |-> c1, m |-> m, nsIndex |-> 0]
            ELSE [c |-> SetErr(c1, "OK"),
                  m |-> [m EXCEPT !.mNamespaceUsage = @ \cup {ns},
                                  !.mNamespaces = Append(@, [mName |-> nsName,
                                                             mIndex |-> ns])],
                  nsIndex |-> ns]
        Create(ns) ==
            IF ns = 255 THEN [c |-> SetErr(c, "NOT_ENOUGH_SPACE"), m |-> m, nsIndex |-> 0]
            ELSE IF nomem # 0 THEN [c |-> SetErr(c, "NO_MEM"), m |-> m, nsIndex |-> 0]
            ELSE Created(WriteItem(c, NS_INDEX, "U8", nsName, ns, 1, 0), ns)
    IN IF c.state # "ACTIVE" THEN [c |-> SetErr(c, "NOT_INITIALIZED"), m |-> m, nsIndex |-> 0]
       ELSE IF hit # {}
       THEN [c |-> SetErr(c, "OK"), m |-> m, nsIndex |-> m.mNamespaces[Min(hit)].mIndex]
       ELSE IF ~canCreate THEN [c |-> SetErr(c, "NOT_FOUND"), m |-> m, nsIndex |-> 0]
       ELSE Create(IF free = {} THEN 255 ELSE -Min({-n : n \in free}))

\* createOrOpenNamespace not marking the index it issues in the bitmap.
CreateOrOpenNamespaceNoBit(c, m, nsName, canCreate, nomem) ==
    LET hit == {n \in 1..Len(m.mNamespaces) : m.mNamespaces[n].mName = nsName}
        free == {n \in 1..NsCount : n \notin m.mNamespaceUsage}
        Created(c1, ns) ==
            IF c1.err # "OK" THEN [c |-> c1, m |-> m, nsIndex |-> 0]
            ELSE [c |-> SetErr(c1, "OK"),
                  m |-> [m EXCEPT !.mNamespaces = Append(@, [mName |-> nsName,
                                                             mIndex |-> ns])],
                  nsIndex |-> ns]
        Create(ns) ==
            IF ns = 255 THEN [c |-> SetErr(c, "NOT_ENOUGH_SPACE"), m |-> m, nsIndex |-> 0]
            ELSE IF nomem # 0 THEN [c |-> SetErr(c, "NO_MEM"), m |-> m, nsIndex |-> 0]
            ELSE Created(WriteItem(c, NS_INDEX, "U8", nsName, ns, 1, 0), ns)
    IN IF c.state # "ACTIVE" THEN [c |-> SetErr(c, "NOT_INITIALIZED"), m |-> m, nsIndex |-> 0]
       ELSE IF hit # {}
       THEN [c |-> SetErr(c, "OK"), m |-> m, nsIndex |-> m.mNamespaces[Min(hit)].mIndex]
       ELSE IF ~canCreate THEN [c |-> SetErr(c, "NOT_FOUND"), m |-> m, nsIndex |-> 0]
       ELSE Create(IF free = {} THEN 255 ELSE Min(free))

\* createOrOpenNamespace entering the name also when writing its item failed.
CreateOrOpenNamespaceUnsaved(c, m, nsName, canCreate, nomem) ==
    LET hit == {n \in 1..Len(m.mNamespaces) : m.mNamespaces[n].mName = nsName}
        free == {n \in 1..NsCount : n \notin m.mNamespaceUsage}
        Created(c1, ns) ==
            IF FALSE THEN [c |-> c1, m |-> m, nsIndex |-> 0]
            ELSE [c |-> c1,
                  m |-> [m EXCEPT !.mNamespaceUsage = @ \cup {ns},
                                  !.mNamespaces = Append(@, [mName |-> nsName,
                                                             mIndex |-> ns])],
                  nsIndex |-> ns]
        Create(ns) ==
            IF ns = 255 THEN [c |-> SetErr(c, "NOT_ENOUGH_SPACE"), m |-> m, nsIndex |-> 0]
            ELSE IF nomem # 0 THEN [c |-> SetErr(c, "NO_MEM"), m |-> m, nsIndex |-> 0]
            ELSE Created(WriteItem(c, NS_INDEX, "U8", nsName, ns, 1, 0), ns)
    IN IF c.state # "ACTIVE" THEN [c |-> SetErr(c, "NOT_INITIALIZED"), m |-> m, nsIndex |-> 0]
       ELSE IF hit # {}
       THEN [c |-> SetErr(c, "OK"), m |-> m, nsIndex |-> m.mNamespaces[Min(hit)].mIndex]
       ELSE IF ~canCreate THEN [c |-> SetErr(c, "NOT_FOUND"), m |-> m, nsIndex |-> 0]
       ELSE Create(IF free = {} THEN 255 ELSE Min(free))

\* Storage::createOrOpenNamespace: the context, the Storage object and nsIndex.
CreateOrOpenNamespace(c, m, nsName, canCreate, nomem) ==
    LET hit == {n \in 1..Len(m.mNamespaces) : m.mNamespaces[n].mName = nsName}
        free == {n \in 1..NsCount : n \notin m.mNamespaceUsage}
        Created(c1, ns) ==
            IF c1.err # "OK" THEN [c |-> c1, m |-> m, nsIndex |-> 0]
            ELSE [c |-> SetErr(c1, "OK"),
                  m |-> [m EXCEPT !.mNamespaceUsage = @ \cup {ns},
                                  !.mNamespaces = Append(@, [mName |-> nsName,
                                                             mIndex |-> ns])],
                  nsIndex |-> ns]
        Create(ns) ==
            IF ns = 255 THEN [c |-> SetErr(c, "NOT_ENOUGH_SPACE"), m |-> m, nsIndex |-> 0]
            ELSE IF nomem # 0 THEN [c |-> SetErr(c, "NO_MEM"), m |-> m, nsIndex |-> 0]
            ELSE Created(WriteItem(c, NS_INDEX, "U8", nsName, ns, 1, 0), ns)
    IN IF c.state # "ACTIVE" THEN [c |-> SetErr(c, "NOT_INITIALIZED"), m |-> m, nsIndex |-> 0]
       ELSE IF hit # {}
       THEN [c |-> SetErr(c, "OK"), m |-> m, nsIndex |-> m.mNamespaces[Min(hit)].mIndex]
       ELSE IF ~canCreate THEN [c |-> SetErr(c, "NOT_FOUND"), m |-> m, nsIndex |-> 0]
       ELSE Create(IF free = {} THEN 255 ELSE Min(free))

\* open_handle not counting the handle it returns.
OpenHandleNoCount(c, m, ns_name, readWrite, nomem) ==
    LET None(c1, m1) == [c |-> c1, m |-> m1, nsIndex |-> 0, handle |-> FALSE]
        Opened(r) ==
            IF r.c.err # "OK" THEN None(r.c, r.m)
            ELSE IF nomem = 2 THEN None(SetErr(r.c, "NO_MEM"), r.m)
            ELSE [c |-> SetErr(r.c, "OK"), m |-> r.m,
                  nsIndex |-> r.nsIndex, handle |-> TRUE]
    IN IF ns_name = NullKey THEN None(SetErr(c, "INVALID_ARG"), m)
       ELSE Opened(CreateOrOpenNamespace(c, m, ns_name, readWrite,
                                         IF nomem = 1 THEN 1 ELSE 0))

\* Storage::open_handle: the context, the Storage object, nsIndex and
\* whether a handle is returned.  ns_name = NullKey is the null pointer;
\* nomem: 1 if the NamespaceEntry, 2 if the Handle cannot be allocated.
OpenHandle(c, m, ns_name, readWrite, nomem) ==
    LET None(c1, m1) == [c |-> c1, m |-> m1, nsIndex |-> 0, handle |-> FALSE]
        Opened(r) ==
            IF r.c.err # "OK" THEN None(r.c, r.m)
            ELSE IF nomem = 2 THEN None(SetErr(r.c, "NO_MEM"), r.m)
            ELSE [c |-> SetErr(r.c, "OK"),
                  m |-> [r.m EXCEPT !.mHandleCount = @ + 1],
                  nsIndex |-> r.nsIndex, handle |-> TRUE]
    IN IF ns_name = NullKey THEN None(SetErr(c, "INVALID_ARG"), m)
       ELSE Opened(CreateOrOpenNamespace(c, m, ns_name, readWrite,
                                         IF nomem = 1 THEN 1 ELSE 0))

\* PageManager::fillStats: the entries of the pages of the list.
PageManagerFillStats(c) ==
    LET Used(k) == NextFreeEntry(c.pg[c.ord[k]]) - ErasedEntryCount(c.pg[c.ord[k]])
        RECURSIVE Sum(_)
        Sum(k) == IF k = 0 THEN 0 ELSE Used(k) + Sum(k - 1)
    IN [err |-> "OK", used_entries |-> Sum(Len(c.ord)),
        total_entries |-> PageCount * EntryCount]

\* Storage::fillStats
FillStats(c, m) ==
    LET Filled(st) ==
            [c |-> SetErr(c, st.err),
             stats |-> [namespace_count |-> Len(m.mNamespaces),
                        used_entries |-> st.used_entries,
                        total_entries |-> st.total_entries]]
    IN Filled(PageManagerFillStats(c))

\* The loop of calcEntriesInNamespace: the spans of the items of nsIndex on
\* the pages from the k-th on, from position i of that page.
RECURSIVE UsedEntries(_, _, _, _)
UsedEntries(c, nsIndex, k, i) ==
    LET Rest(p, j) ==
            IF j = 0 THEN UsedEntries(c, nsIndex, k + 1, 1)
            ELSE IF SumSpan(p.items, j) >= EntryCount
            THEN p.items[j].span + UsedEntries(c, nsIndex, k + 1, 1)
            ELSE p.items[j].span + UsedEntries(c, nsIndex, k, j + 1)
    IN IF k > Len(c.ord) THEN 0
       ELSE Rest(c.pg[c.ord[k]],
                 PageFindItem(c.pg[c.ord[k]], nsIndex, "ANY", NullKey, i,
                              CHUNK_ANY, VER_ANY))

\* Storage::calcEntriesInNamespace
CalcEntriesInNamespace(c, nsIndex) ==
    IF c.state # "ACTIVE" THEN [c |-> SetErr(c, "NOT_INITIALIZED"), usedEntries |-> 0]
    ELSE [c |-> SetErr(c, "OK"), usedEntries |-> UsedEntries(c, nsIndex, 1, 1)]

\* ---------------------------------------------------------- ItemIterator
NoItem == Tomb(0)

\* ItemIterator::ItemIterator: reset(), then the namespace is looked up.
ItemIterator(c, m, ns_name, itemType) ==
    LET it == [itemType |-> itemType, nsIndex |-> NS_ANY, entryIndex |-> 1,
               page |-> 1, done |-> FALSE, item |-> NoItem, live |-> TRUE]
        Opened(r) ==
            IF r.c.err = "OK" THEN [it EXCEPT !.nsIndex = r.nsIndex]
            ELSE [it EXCEPT !.done = TRUE]
    IN IF ns_name = NullKey THEN it
       ELSE Opened(CreateOrOpenNamespace(c, m, ns_name, FALSE, 0))

\* ItemIterator::reset
IterReset(it) == [it EXCEPT !.entryIndex = 1, !.page = 1, !.done = FALSE]

\* The lambdas of next(): nsIndex is the member of the iterator (the
\* filter), datatype and chunkIndex are those of the item found.
IsIterableItem(it) ==
    it.nsIndex # 0 /\ it.item.dt # "BLOB" /\ it.item.dt # "BLOB_IDX"

IsMultipageBlob(it) ==
    /\ it.item.dt = "BLOB_DATA"
    /\ it.item.ci # VER_0_OFFSET
    /\ it.item.ci # VER_1_OFFSET

\* next() searching the pages for the items of every namespace.
RECURSIVE IterNextAnyNs(_, _)
IterNextAnyNs(f, it) ==
    LET Visit(it1) ==
            IF IsIterableItem(it1) /\ ~IsMultipageBlob(it1) THEN [it |-> it1, ret |-> TRUE]
            ELSE IterNextAnyNs(f, it1)
        Step(p, j) ==
            IF j = 0 THEN IterNextAnyNs(f, [it EXCEPT !.page = @ + 1, !.entryIndex = 1])
            ELSE Visit([it EXCEPT !.item = p.items[j], !.entryIndex = j + 1])
    IN IF it.done THEN [it |-> it, ret |-> FALSE]
       ELSE IF it.page > Len(f.ord) THEN [it |-> [it EXCEPT !.done = TRUE], ret |-> FALSE]
       ELSE Step(f.pg[f.ord[it.page]],
                 PageFindItem(f.pg[f.ord[it.page]], NS_ANY, it.itemType, NullKey,
                              it.entryIndex, CHUNK_ANY, VER_ANY))

\* ItemIterator::next: the iterator after the call and the value returned.
RECURSIVE IterNext(_, _)
IterNext(f, it) ==
    LET Visit(it1) ==
            IF IsIterableItem(it1) /\ ~IsMultipageBlob(it1) THEN [it |-> it1, ret |-> TRUE]
            ELSE IterNext(f, it1)
        Step(p, j) ==
            IF j = 0 THEN IterNext(f, [it EXCEPT !.page = @ + 1, !.entryIndex = 1])
            ELSE Visit([it EXCEPT !.item = p.items[j], !.entryIndex = j + 1])
    IN IF it.done THEN [it |-> it, ret |-> FALSE]
       ELSE IF it.page > Len(f.ord) THEN [it |-> [it EXCEPT !.done = TRUE], ret |-> FALSE]
       ELSE Step(f.pg[f.ord[it.page]],
                 PageFindItem(f.pg[f.ord[it.page]], it.nsIndex, it.itemType, NullKey,
                              it.entryIndex, CHUNK_ANY, VER_ANY))

\* The items the calls of next() yield until it returns false.
RECURSIVE IterAll(_, _)
IterAll(f, it) ==
    LET Rest(r) == IF r.ret THEN <<r.it.item>> \o IterAll(f, r.it) ELSE <<>>
    IN Rest(IterNext(f, it))

\* ------------------------------------------------- the items on flash
\* The places of the flash, and those holding a WRITTEN item that matches.
Places(f) == UNION {{<<s, i>> : i \in 1..Len(f.pg[s].items)} : s \in InOrd(f)}

ItemAt(f, pl) == f.pg[pl[1]].items[pl[2]]

WrittenAt(f, ns, dt, key) ==
    {pl \in Places(f) : Matches(ItemAt(f, pl), ns, dt, key, CHUNK_ANY, VER_ANY)}

\* The WRITTEN index and chunk items of a blob key.
BlobItems(f, ns, key) ==
    {ItemAt(f, pl) : pl \in WrittenAt(f, ns, "BLOB_IDX", key)
                            \cup WrittenAt(f, ns, "BLOB_DATA", key)}

\* The condition debugCheck asserts.
NoDuplicates(f) ==
    \A p1 \in WrittenAt(f, NS_ANY, "ANY", NullKey) :
        \A p2 \in WrittenAt(f, NS_ANY, "ANY", NullKey) :
            SameTuple(ItemAt(f, p1), ItemAt(f, p2)) => p1 = p2

\* The WRITTEN chunks outside the range of every WRITTEN index of their key.
Uncovered(f) ==
    {pl \in WrittenAt(f, NS_ANY, "BLOB_DATA", NullKey) :
        ~ \E px \in WrittenAt(f, ItemAt(f, pl).ns, "BLOB_IDX", ItemAt(f, pl).key) :
            LET x == ItemAt(f, px).idx
            IN /\ ItemAt(f, pl).ci >= x.chunkStart
               /\ ItemAt(f, pl).ci < x.chunkStart + x.chunkCount}

AllChunksCovered(f) == Uncovered(f) = {}

\* ------------------------------------------------------------- the state
\* flash: the partition.  mState .. mHandleCount: the Storage object.
\* last: the call made by the last step and its outcome.  nOps: the number
\* of steps taken (last.orph: the chunks a mount found without an index;
\* last.was: what the item of the call read as before the call).
\* iter: the ItemIterator the callers hold (live: it was constructed).
\* expect: what each item should read as, by the calls that
\* returned success (<<>>: not stored).
\* written: the items writeItem stored under a key not used before, in the
\* order of the calls (clean: no other call has programmed the flash).
VARIABLES flash, mState, mLastError, mNamespaces, mNamespaceUsage, mHandleCount,
          last, nOps, expect, iter, written

vars == <<flash, mState, mLastError, mNamespaces, mNamespaceUsage, mHandleCount,
          last, nOps, expect, iter, written>>

Storage ==
    [mState |-> mState, mLastError |-> mLastError, mNamespaces |-> mNamespaces,
     mNamespaceUsage |-> mNamespaceUsage, mHandleCount |-> mHandleCount]

Context == [Ctx(flash) EXCEPT !.state = mState]

NoCall ==
    [op |-> "none", ns |-> 0, dt |-> "NONE", key |-> "", id |-> 0, size |-> 0,
     ok |-> TRUE, nprog |-> 0, cut |-> 0, buf |-> <<>>, af |-> FALSE, cw |-> 0,
     nomem |-> 0, sub |-> "none", orph |-> 0, was |-> <<>>]

Call(op, ns, dt, key, id, size, c) ==
    [op |-> op, ns |-> ns, dt |-> dt, key |-> key, id |-> id, size |-> size,
     ok |-> c.err = "OK", nprog |-> Len(c.tr), cut |-> 0, buf |-> c.buf, af |-> c.af,
     cw |-> c.cw, nomem |-> 0, sub |-> "none", orph |-> 0, was |-> <<>>]

\* ----------------------------------------------------------- the inputs
Buffers == {1, 2}
BlobSizes == {ENTRY_SIZE, CHUNK_MAX_SIZE + ENTRY_SIZE}
StrSizes == {ENTRY_SIZE + 8}
\* the items the callers write: namespace index, type, key and sizes
Slots ==
    {[ns |-> 1, dt |-> "U8", key |-> "x", sizes |-> {1}],
     [ns |-> 1, dt |-> "BLOB", key |-> "b", sizes |-> BlobSizes],
     [ns |-> 2, dt |-> "STR", key |-> "x", sizes |-> StrSizes]}

\* the calls that program the flash: writeItem and eraseItem
Writes ==
    {[op |-> "write", sl |-> sl, id |-> id, size |-> size, nomem |-> nomem] :
        sl \in Slots, id \in Buffers, size \in BlobSizes \cup StrSizes \cup {1},
        nomem \in {0, 1}}

Mutations ==
    {w \in Writes : w.size \in w.sl.sizes /\ (w.nomem = 0 \/ w.sl.dt = "BLOB")}
    \cup {[op |-> "erase", sl |-> sl, id |-> 0, size |-> 0, nomem |-> 0] : sl \in Slots}

\* The bytes of a caller's buffer of `size` bytes.
Bytes(id, size) == <<[id |-> id, off |-> 0, len |-> size]>>

\* Adjacent byte ranges of one buffer are one range.
RECURSIVE Merge(_)
Merge(buf) ==
    IF Len(buf) <= 1 THEN buf
    ELSE LET a == buf[1]
             b == buf[2]
         IN IF a.id = b.id /\ a.off + a.len = b.off
            THEN Merge(<<[id |-> a.id, off |-> a.off, len |-> a.len + b.len]>>
                       \o SubSeq(buf, 3, Len(buf)))
            ELSE <<a>> \o Merge(Tail(buf))

\* What readItem returns for an item on flash image f with the size that
\* getItemDataSize reports; <<>> if it fails or an assertion stops it.
VisibleAt(f, ns, dt, key) ==
    LET Seen(r) == IF r.err = "OK" /\ ~r.af THEN Merge(r.buf) ELSE <<>>
    IN Seen(ReadItem(Ctx(f), ns, dt, key, GetItemDataSize(Ctx(f), ns, dt, key).dataSize))

Visible(f, sl) == VisibleAt(f, sl.ns, sl.dt, sl.key)

VisibleMap(f) == [sl \in Slots |-> Visible(f, sl)]

\* What the items should read as once call u has taken effect on map e.
Applied(e, u) ==
    [sl \in Slots |->
        IF sl = u.sl
        THEN IF u.op = "write" THEN Bytes(u.id, u.size) ELSE <<>>
        ELSE e[sl]]

\* The context after the whole call.
Run(c, u) ==
    IF u.op = "write"
    THEN WriteItem(c, u.sl.ns, u.sl.dt, u.sl.key, u.id, u.size, u.nomem)
    ELSE EraseItem(c, u.sl.ns, u.sl.dt, u.sl.key)

Init ==
    /\ flash = [pg |-> [s \in Sectors |-> EmptyPage], ord |-> <<>>,
                fr |-> [s \in Sectors |-> s]]
    /\ mState = "INVALID"
    /\ mLastError = "OK"
    /\ mNamespaces = <<>>
    /\ mNamespaceUsage = {}
    /\ mHandleCount = 0
    /\ last = NoCall
    /\ nOps = 0
    /\ expect = [sl \in Slots |-> <<>>]
    /\ iter = [ItemIterator(Ctx(flash), Storage, NullKey, "ANY") EXCEPT !.live = FALSE]
    /\ written = [items |-> <<>>, clean |-> TRUE]

\* The flash and the error of a finished call become the state.
Finish(c, call) ==
    /\ flash' = Snap(c)
    /\ mLastError' = c.err
    /\ last' = call
    /\ nOps' = nOps + 1
    /\ written' = written

MountWith(f, call, nomem) ==
    \E r \in {StorageInit(f, Storage, nomem)} :
       /\ flash' = r.f
       /\ mState' = r.m.mState
       /\ mLastError' = r.m.mLastError
       /\ mNamespaces' = r.m.mNamespaces
       /\ mNamespaceUsage' = r.m.mNamespaceUsage
       /\ last' = [call EXCEPT
                      !.ok = IF call.op = "cut" THEN call.ok ELSE r.m.mLastError = "OK",
                      !.af = call.af \/ r.af,
                      !.nomem = IF call.op = "cut" THEN call.nomem ELSE nomem,
                      !.orph = Cardinality(Uncovered(PageManagerLoad(f).f))]
       /\ nOps' = nOps + 1
       /\ UNCHANGED <<mHandleCount, written>>

Mount(f, call) == MountWith(f, call, 0)

DoInit(max) ==
    /\ nOps < max
    /\ Mount(flash, [NoCall EXCEPT !.op = "init"])
    /\ UNCHANGED <<expect, iter>>

DoMutate(max) ==
    /\ nOps < max
    /\ \E u \in Mutations : \E c \in {Run(Context, u)} :
         /\ Finish(c, [Call(u.op, u.sl.ns, u.sl.dt, u.sl.key, u.id, u.size, c)
                          EXCEPT !.nomem = u.nomem, !.was = Visible(flash, u.sl)])
         /\ expect' = IF c.err = "OK" THEN Applied(expect, u) ELSE expect
    /\ UNCHANGED <<mState, mNamespaces, mNamespaceUsage, mHandleCount, iter>>

DoReadItem(max) ==
    /\ nOps < max
    /\ \E sl \in Slots :
         \E sz \in {GetItemDataSize(Context, sl.ns, sl.dt, sl.key).dataSize} :
            \E c \in {ReadItem(Context, sl.ns, sl.dt, sl.key, sz)} :
               Finish(c, Call("read", sl.ns, sl.dt, sl.key, 0, sz, c))
    /\ UNCHANGED <<mState, mNamespaces, mNamespaceUsage, mHandleCount, expect, iter>>

\* The power is cut after the cut-th flash program of a call; the device
\* restarts and mounts the partition.  last.sub is the call that was cut,
\* last.ok says whether the whole call would have succeeded.
PowerCut(max) ==
    /\ nOps < max
    /\ mHandleCount = 0
    /\ \E u \in Mutations : \E c \in {Run(Context, u)} : \E cut \in 1..Len(c.tr) :
         /\ Mount(c.tr[cut],
                  [Call("cut", u.sl.ns, u.sl.dt, u.sl.key, u.id, u.size, c)
                      EXCEPT !.cut = cut, !.sub = u.op, !.nomem = u.nomem,
                             !.was = Visible(flash, u.sl)])
         /\ expect' = IF VisibleMap(flash') = Applied(expect, u)
                       THEN Applied(expect, u)
                       ELSE expect
    /\ UNCHANGED iter

\* The callers mount the partition before they use it.
Next ==
    \/ DoInit(MaxOps)
    \/ mState = "ACTIVE" /\ DoMutate(MaxOps)
    \/ mState = "ACTIVE" /\ DoReadItem(MaxOps)

Spec == Init /\ [][Next]_vars

\* The same callers on a device that loses power.
NextCut ==
    \/ DoInit(MaxCutOps)
    \/ mState = "ACTIVE" /\ DoMutate(MaxCutOps)
    \/ mState = "ACTIVE" /\ PowerCut(MaxCutOps)

SpecCut == Init /\ [][NextCut]_vars

\* ------------------------------------------- the callers using namespaces
NsNames == {"n1", "n2"}
IterTypes == {"ANY", "U8", "STR", "BLOB_DATA"}

\* the items written into a namespace that was opened
NsWrites ==
    {[dt |-> "U8", key |-> "x", id |-> 1, size |-> 1],
     [dt |-> "STR", key |-> "s", id |-> 1, size |-> ENTRY_SIZE + 8],
     [dt |-> "BLOB", key |-> "b", id |-> 1, size |-> ENTRY_SIZE],
     [dt |-> "BLOB", key |-> "b", id |-> 2, size |-> CHUNK_MAX_SIZE + ENTRY_SIZE]}

DoOpen(max) ==
    /\ nOps < max
    /\ \E nsName \in NsNames : \E canCreate \in BOOLEAN :
         \E r \in {CreateOrOpenNamespace(Context, Storage, nsName, canCreate, 0)} :
            /\ Finish(r.c, Call("open", r.nsIndex, "U8", nsName, 0, 0, r.c))
            /\ mNamespaces' = r.m.mNamespaces
            /\ mNamespaceUsage' = r.m.mNamespaceUsage
    /\ UNCHANGED <<mState, mHandleCount, expect, iter>>

DoWriteNs(max) ==
    /\ nOps < max
    /\ \E n \in 1..Len(mNamespaces) : \E u \in NsWrites :
         \E c \in {WriteItem(Context, mNamespaces[n].mIndex, u.dt, u.key, u.id,
                             u.size, 0)} :
            Finish(c, Call("write", mNamespaces[n].mIndex, u.dt, u.key, u.id, u.size, c))
    /\ UNCHANGED <<mState, mNamespaces, mNamespaceUsage, mHandleCount, expect, iter>>

DoEraseNamespace(max) ==
    /\ nOps < max
    /\ \E n \in 1..Len(mNamespaces) :
         \E c \in {EraseNamespace(Context, mNamespaces[n].mIndex)} :
            Finish(c, Call("erasens", mNamespaces[n].mIndex, "ANY",
                           mNamespaces[n].mName, 0, 0, c))
    /\ UNCHANGED <<mState, mNamespaces, mNamespaceUsage, mHandleCount, expect, iter>>

\* findEntry: an iterator is constructed.
DoFindEntry(max) ==
    /\ nOps < max
    /\ \E nsName \in NsNames \cup {NullKey} : \E itemType \in IterTypes :
         \E r \in {CreateOrOpenNamespace(Context, Storage, nsName, FALSE, 0)} :
         \E it \in {ItemIterator(Context, Storage, nsName, itemType)} :
            /\ iter' = it
            /\ mLastError' = IF nsName = NullKey THEN mLastError ELSE r.c.err
            /\ last' = [NoCall EXCEPT !.op = "find", !.ns = it.nsIndex, !.dt = itemType,
                                      !.key = nsName, !.ok = ~it.done]
    /\ nOps' = nOps + 1
    /\ UNCHANGED <<flash, mState, mNamespaces, mNamespaceUsage, mHandleCount, expect,
                   written>>

\* One call of next() on the iterator.
DoNext(max) ==
    /\ nOps < max
    /\ iter.live
    /\ \E r \in {IterNext(flash, iter)} :
          /\ iter' = r.it
          /\ last' = [NoCall EXCEPT !.op = "next", !.ns = iter.nsIndex, !.ok = r.ret,
                                    !.dt = IF r.ret THEN r.it.item.dt ELSE "NONE",
                                    !.key = IF r.ret THEN r.it.item.key ELSE NullKey]
    /\ nOps' = nOps + 1
    /\ UNCHANGED <<flash, mState, mLastError, mNamespaces, mNamespaceUsage,
                   mHandleCount, expect, written>>

NextNs ==
    \/ DoInit(MaxNsOps)
    \/ mState = "ACTIVE" /\ DoOpen(MaxNsOps)
    \/ mState = "ACTIVE" /\ DoWriteNs(MaxNsOps)
    \/ mState = "ACTIVE" /\ DoEraseNamespace(MaxNsOps)
    \/ mState = "ACTIVE" /\ DoFindEntry(MaxNsOps)
    \/ mState = "ACTIVE" /\ DoNext(MaxNsOps)

SpecNs == Init /\ [][NextNs]_vars

\* ------------------------------------------------ the callers that iterate
\* They write every key of a namespace once and erase nothing.
DoWriteFresh(max) ==
    /\ nOps < max
    /\ \E n \in 1..Len(mNamespaces) : \E u \in NsWrites :
         \E c \in {WriteItem(Context, mNamespaces[n].mIndex, u.dt, u.key, u.id,
                             u.size, 0)} :
            /\ \A k \in 1..Len(written.items) :
                  ~ (/\ written.items[k].ns = mNamespaces[n].mIndex
                     /\ written.items[k].key = u.key)
            /\ flash' = Snap(c)
            /\ mLastError' = c.err
            /\ last' = Call("write", mNamespaces[n].mIndex, u.dt, u.key, u.id, u.size, c)
            /\ written' =
                  IF c.err = "OK"
                  THEN [written EXCEPT !.items =
                           Append(@, [ns |-> mNamespaces[n].mIndex, dt |-> u.dt,
                                      key |-> u.key])]
                  ELSE [written EXCEPT !.clean = FALSE]
    /\ nOps' = nOps + 1
    /\ UNCHANGED <<mState, mNamespaces, mNamespaceUsage, mHandleCount, expect, iter>>

\* reset() on the iterator.
DoReset(max) ==
    /\ nOps < max
    /\ iter.live
    /\ iter' = IterReset(iter)
    /\ last' = [NoCall EXCEPT !.op = "reset", !.ns = iter.nsIndex]
    /\ nOps' = nOps + 1
    /\ UNCHANGED <<flash, mState, mLastError, mNamespaces, mNamespaceUsage,
                   mHandleCount, expect, written>>

NextIter ==
    \/ DoInit(MaxIterOps)
    \/ mState = "ACTIVE" /\ DoOpen(MaxIterOps)
    \/ mState = "ACTIVE" /\ DoWriteFresh(MaxIterOps)
    \/ mState = "ACTIVE" /\ DoFindEntry(MaxIterOps)
    \/ mState = "ACTIVE" /\ DoNext(MaxIterOps)
    \/ mState = "ACTIVE" /\ DoReset(MaxIterOps)

SpecIter == Init /\ [][NextIter]_vars

\* --------------------------------------- the callers of the whole interface
\* They call in every state of the Storage, mounted or not, and their
\* allocations can fail.
ApiNames == {"n1", "n2", "n3"}
ApiOps == {"write", "read", "erase", "erasens", "size", "calc", "stats"}

\* init; last.nomem is the allocation that fails.
DoInitMem(max) ==
    /\ nOps < max
    /\ \E nomem \in {0, 1, 2} : MountWith(flash, [NoCall EXCEPT !.op = "init"], nomem)
    /\ UNCHANGED <<expect, iter>>

\* createOrOpenNamespace; last.sub says whether the name may be created.
DoCreateOrOpen(max) ==
    /\ nOps < max
    /\ \E nsName \in ApiNames : \E canCreate \in BOOLEAN : \E nomem \in {0, 1} :
         \E r \in {CreateOrOpenNamespace(Context, Storage, nsName, canCreate, nomem)} :
            /\ Finish(r.c, [Call("open", r.nsIndex, "U8", nsName, 0, 0, r.c)
                               EXCEPT !.nomem = nomem,
                                      !.sub = IF canCreate THEN "create" ELSE "lookup"])
            /\ mNamespaces' = r.m.mNamespaces
            /\ mNamespaceUsage' = r.m.mNamespaceUsage
    /\ UNCHANGED <<mState, mHandleCount, expect, iter>>

\* open_handle; last.sub is the open mode.
DoOpenHandle(max) ==
    /\ nOps < max
    /\ mHandleCount < MaxHandles
    /\ \E ns_name \in ApiNames \cup {NullKey} : \E readWrite \in BOOLEAN :
         \E nomem \in {0, 2} :
         \E r \in {OpenHandle(Context, Storage, ns_name, readWrite, nomem)} :
            /\ Finish(r.c, [Call("handle", r.nsIndex, "U8", ns_name, 0, 0, r.c)
                               EXCEPT !.nomem = nomem, !.ok = r.handle,
                                      !.sub = IF readWrite THEN "create" ELSE "lookup"])
            /\ mNamespaces' = r.m.mNamespaces
            /\ mNamespaceUsage' = r.m.mNamespaceUsage
            /\ mHandleCount' = r.m.mHandleCount
    /\ UNCHANGED <<mState, expect, iter>>

\* The context after one of the other calls on the item (nsIndex, U8, "x").
ApiRun(c, m, op, nsIndex) ==
    CASE op = "write" -> WriteItem(c, nsIndex, "U8", "x", 1, 1, 0)
      [] op = "read" -> ReadItem(c, nsIndex, "U8", "x", 1)
      [] op = "erase" -> EraseItem(c, nsIndex, "U8", "x")
      [] op = "erasens" -> EraseNamespace(c, nsIndex)
      [] op = "size" -> SetErr(c, GetItemDataSize(c, nsIndex, "U8", "x").err)
      [] op = "calc" -> CalcEntriesInNamespace(c, nsIndex).c
      [] op = "stats" -> FillStats(c, m).c

DoApiCall(max) ==
    /\ nOps < max
    /\ \E op \in ApiOps : \E nsIndex \in 1..NsCount :
         \E c \in {ApiRun(Context, Storage, op, nsIndex)} :
            Finish(c, Call(op, nsIndex, "U8", "x", 1, 1, c))
    /\ UNCHANGED <<mState, mNamespaces, mNamespaceUsage, mHandleCount, expect, iter>>

NextApi ==
    \/ DoInitMem(MaxApiOps)
    \/ DoCreateOrOpen(MaxApiOps)
    \/ DoOpenHandle(MaxApiOps)
    \/ DoApiCall(MaxApiOps)

SpecApi == Init /\ [][NextApi]_vars

\* ------------------------------------------ the callers of large blobs
\* blob sizes above CHUNK_MAX_SIZE that writeMultiPageBlob accepts
BigBlobSizes == {CHUNK_MAX_SIZE + 2 * ENTRY_SIZE, 2 * CHUNK_MAX_SIZE}

\* writeItem of a large blob
DoWriteBlob(max) ==
    /\ nOps < max
    /\ \E sl \in {x \in Slots : x.dt = "BLOB"} : \E id \in Buffers :
         \E size \in BigBlobSizes :
            \E u \in {[op |-> "write", sl |-> sl, id |-> id, size |-> size,
                       nomem |-> 0]} :
               \E c \in {Run(Context, u)} :
                  /\ Finish(c, [Call(u.op, sl.ns, sl.dt, sl.key, id, size, c)
                                   EXCEPT !.was = Visible(flash, sl)])
                  /\ expect' = IF c.err = "OK" THEN Applied(expect, u) ELSE expect
    /\ UNCHANGED <<mState, mNamespaces, mNamespaceUsage, mHandleCount, iter>>

NextBlob ==
    \/ DoInit(MaxBlobOps)
    \/ mState = "ACTIVE" /\ DoMutate(MaxBlobOps)
    \/ mState = "ACTIVE" /\ DoWriteBlob(MaxBlobOps)

SpecBlob == Init /\ [][NextBlob]_vars

\* -------------------------------- the callers of namespaces and of items
NextTable ==
    \/ DoInit(MaxTableOps)
    \/ mState = "ACTIVE" /\ DoMutate(MaxTableOps)
    \/ mState = "ACTIVE" /\ DoCreateOrOpen(MaxTableOps)
    \/ mState = "ACTIVE" /\ DoOpenHandle(MaxTableOps)
    \/ mState = "ACTIVE" /\ DoApiCall(MaxTableOps)

SpecTable == Init /\ [][NextTable]_vars

\* ------------------------------------------------------------ the claims

\* C2: a writeItem(BLOB) on a key holding a blob that fails after it has
\* written a chunk leaves the old index and chunks WRITTEN, the old bytes
\* readable, and none of its own chunks WRITTEN.
C2_FailedBlobWriteKeepsOld ==
    [][(/\ last'.op = "write"
        /\ last'.dt = "BLOB"
        /\ ~last'.ok
        /\ last'.cw > 0
        /\ VisibleAt(flash, last'.ns, "BLOB", last'.key) # <<>>)
       => /\ VisibleAt(flash', last'.ns, "BLOB", last'.key)
               = VisibleAt(flash, last'.ns, "BLOB", last'.key)
          /\ BlobItems(flash', last'.ns, last'.key)
               = BlobItems(flash, last'.ns, last'.key)]_vars

\* C4: after a successful writeItem the item reads back as the bytes
\* written, and a successful writeItem or eraseItem leaves what the other
\* items read as unchanged.
C4_RoundTrip ==
    [][(last'.op \in {"write", "erase"} /\ last'.ok)
       => /\ last'.op = "write"
               => VisibleAt(flash', last'.ns, last'.dt, last'.key)
                    = Bytes(last'.id, last'.size)
          /\ \A sl \in Slots :
               (sl.ns # last'.ns \/ sl.key # last'.key) /\ Visible(flash, sl) # <<>>
                   => Visible(flash', sl) = Visible(flash, sl)]_vars

\* C5: after a successful init and after a successful writeItem no two
\* WRITTEN items share (nsIndex, datatype, key, chunkIndex).
C5_NoDuplicateItems ==
    (last.op \in {"init", "write", "cut"} /\ (last.ok \/ last.op = "cut"))
        => NoDuplicates(flash)

\* C7: after a successful writeItem(BLOB) the key has exactly one WRITTEN
\* index, every chunk of its range is WRITTEN, and the chunk sizes add up
\* to dataSize.
C7_BlobIndexComplete ==
    (last.op = "write" /\ last.dt = "BLOB" /\ last.ok)
        => /\ Cardinality(WrittenAt(flash, last.ns, "BLOB_IDX", last.key)) = 1
           /\ \A px \in WrittenAt(flash, last.ns, "BLOB_IDX", last.key) :
                LET x == ItemAt(flash, px).idx
                    r == ReadChunks(Ctx(flash), last.ns, last.key, x.chunkStart,
                                    x.chunkCount, 0, 0, <<>>)
                IN r.err = "OK" /\ r.offset = x.dataSize /\ x.dataSize = last.size

\* C1: after a power cut inside a writeItem or eraseItem and the mount that
\* follows, the items read as the calls that returned success left them, or
\* as they do once the interrupted call has taken effect as well.
C1_PowerCutAtomic == last.op = "cut" => VisibleMap(flash) = expect

\* C3: a power cut inside a writeItem(BLOB) that replaces a stored blob by
\* other bytes, then the mount: the blob reads as the old bytes or as the new
\* ones, and every WRITTEN chunk of the key is covered by a WRITTEN index.
C3_BlobReplaceAtomic ==
    [][(/\ last'.op = "cut"
        /\ last'.sub = "write"
        /\ last'.dt = "BLOB"
        /\ VisibleAt(flash, last'.ns, "BLOB", last'.key)
              \notin {<<>>, Bytes(last'.id, last'.size)})
       => /\ VisibleAt(flash', last'.ns, "BLOB", last'.key)
               \in {VisibleAt(flash, last'.ns, "BLOB", last'.key),
                    Bytes(last'.id, last'.size)}
          /\ \A pl \in Uncovered(flash') : ItemAt(flash', pl).key # last'.key]_vars

\* C6: after a successful init every WRITTEN chunk is covered by a WRITTEN
\* index of its namespace and key, and a blob key without an index reads
\* NOT_FOUND.
C6_OrphansReclaimed ==
    (last.op \in {"init", "cut"} /\ mState = "ACTIVE")
        => /\ AllChunksCovered(flash)
           /\ \A sl \in Slots :
                (sl.dt = "BLOB" /\ WrittenAt(flash, sl.ns, "BLOB_IDX", sl.key) = {})
                    => ReadItem(Ctx(flash), sl.ns, "BLOB", sl.key, 0).err = "NOT_FOUND"

\* A mount that found chunks without an index and left their key with no
\* WRITTEN item.
C6_Witness ==
    /\ last.op \in {"init", "cut"}
    /\ mState = "ACTIVE"
    /\ last.orph > 0
    /\ \E sl \in Slots : sl.dt = "BLOB" /\ BlobItems(flash, sl.ns, sl.key) = {}

\* C8: a writeItem of the bytes the item already reads as returns success
\* and programs nothing: the flash, page states included, is unchanged.
C8_WriteElision ==
    [][(/\ last'.op = "write"
        /\ VisibleAt(flash, last'.ns, last'.dt, last'.key)
              = Bytes(last'.id, last'.size))
       => /\ last'.ok
          /\ last'.nprog = 0
          /\ flash' = flash]_vars

\* A blob of two chunks written a second time.
C8_Witness ==
    /\ last.op = "write"
    /\ last.dt = "BLOB"
    /\ last.size > CHUNK_MAX_SIZE
    /\ last.was = Bytes(last.id, last.size)
    /\ last.ok
    /\ last.nprog = 0

\* The WRITTEN chunks of a key on f2 that lie in the range of an index the
\* key has on f1.
ChunksLeft(f1, f2, ns, key) ==
    {pl \in WrittenAt(f2, ns, "BLOB_DATA", key) :
        \E px \in WrittenAt(f1, ns, "BLOB_IDX", key) :
            LET x == ItemAt(f1, px).idx
            IN /\ ItemAt(f2, pl).ci >= x.chunkStart
               /\ ItemAt(f2, pl).ci < x.chunkStart + x.chunkCount}

\* The item is stored: a WRITTEN item of its type (for a blob, an index).
Stored(f, ns, dt, key) ==
    WrittenAt(f, ns, IF dt = "BLOB" THEN "BLOB_IDX" ELSE dt, key) # {}

\* C9: after a successful eraseItem the item reads NOT_FOUND, a blob has no
\* index and no chunk of its range WRITTEN, and the other items read as
\* before; eraseItem of an item that is not stored fails with NOT_FOUND and
\* leaves the flash as it was.
C9_EraseItem ==
    [][last'.op = "erase"
       => /\ last'.ok
               => /\ ReadItem(Ctx(flash'), last'.ns, last'.dt, last'.key, 0).err
                        = "NOT_FOUND"
                  /\ ~Stored(flash', last'.ns, last'.dt, last'.key)
                  /\ last'.dt = "BLOB"
                        => ChunksLeft(flash, flash', last'.ns, last'.key) = {}
                  /\ \A sl \in Slots :
                        (sl.ns # last'.ns \/ sl.key # last'.key)
                            => Visible(flash', sl) = Visible(flash, sl)
          /\ ~Stored(flash, last'.ns, last'.dt, last'.key)
               => /\ ~last'.ok
                  /\ mLastError' = "NOT_FOUND"
                  /\ flash' = flash]_vars

\* C10: after a successful eraseNamespace the first next() of an iterator
\* filtered by the name of that namespace returns false, whatever the item
\* type the iterator asks for.
C10_ErasedNamespaceIteratesEmpty ==
    (last.op = "erasens" /\ last.ok)
        => \A itemType \in IterTypes :
              ~IterNext(flash, ItemIterator(Context, Storage, last.key, itemType)).ret

\* A namespace with items on two pages was erased.
C10_Witness ==
    /\ last.op = "erasens"
    /\ last.ok
    /\ last.nprog >= 4
    /\ Len(flash.ord) >= 2
    /\ \E s \in InOrd(flash) : \E i \in 1..Len(flash.pg[s].items) :
          flash.pg[s].items[i].es = "ERASED" /\ s # Last(flash.ord)
\* The indices the namespace entries WRITTEN on flash give to a name.
FlashIdx(f, nsName) ==
    {ItemAt(f, pl).pay.id : pl \in WrittenAt(f, NS_INDEX, "U8", nsName)}

C11_Table ==
    /\ \A a \in 1..Len(mNamespaces) : \A b \in 1..Len(mNamespaces) :
          a # b => /\ mNamespaces[a].mName # mNamespaces[b].mName
                   /\ mNamespaces[a].mIndex # mNamespaces[b].mIndex
    /\ \A a \in 1..Len(mNamespaces) :
          /\ mNamespaces[a].mIndex \in mNamespaceUsage
          /\ FlashIdx(flash, mNamespaces[a].mName) = {mNamespaces[a].mIndex}
    /\ \A n1 \in ApiNames : \A n2 \in ApiNames :
          n1 # n2 => FlashIdx(flash, n1) \cap FlashIdx(flash, n2) = {}
    /\ (last.op \in {"open", "handle"} /\ mLastError = "OK")
          => FlashIdx(flash, last.key) = {last.ns}

C11_Step ==
    /\ \A nsName \in ApiNames :
          FlashIdx(flash, nsName) # {} => FlashIdx(flash', nsName) = FlashIdx(flash, nsName)
    /\ last'.op # "init" =>
          /\ mNamespaceUsage \subseteq mNamespaceUsage'
          /\ \A a \in 1..Len(mNamespaces) :
                a <= Len(mNamespaces') /\ mNamespaces'[a] = mNamespaces[a]

\* C11: no two entries of the namespace table share a name or an index; the
\* index a name was given is the one every later createOrOpenNamespace and
\* open_handle returns for it, through init and eraseNamespace, and until the
\* next mount no index in use is released, so none is issued to another name.
C11_NamespaceIndexStable == [](C11_Table) /\ [][C11_Step]_vars

\* eraseNamespace has erased the items of a namespace; its entry and its
\* index are still in use.
C11_Witness ==
    /\ last.op = "erasens"
    /\ last.ok
    /\ last.nprog > 0
    /\ last.ns \in mNamespaceUsage
    /\ \E a \in 1..Len(mNamespaces) : mNamespaces[a].mIndex = last.ns

\* The indices of 1..254 (scaled down to NsCount) the bitmap has free.
FreeIdx == {n \in 1..NsCount : n \notin mNamespaceUsage}

\* The step is a call that may create a namespace, for a name the table of
\* a mounted Storage does not hold.
C12_NewName ==
    /\ last'.op \in {"open", "handle"}
    /\ last'.sub = "create"
    /\ last'.key # NullKey
    /\ mState = "ACTIVE"
    /\ \A a \in 1..Len(mNamespaces) : mNamespaces[a].mName # last'.key

C12_Step ==
    C12_NewName =>
       /\ FreeIdx = {} =>
             /\ mLastError' = "NOT_ENOUGH_SPACE"
             /\ last'.nprog = 0
             /\ flash' = flash
             /\ mNamespaces' = mNamespaces
             /\ mNamespaceUsage' = mNamespaceUsage
       /\ mNamespaces' # mNamespaces =>
             /\ mNamespaces' = Append(mNamespaces, [mName |-> last'.key,
                                                    mIndex |-> Min(FreeIdx)])
             /\ mNamespaceUsage' = mNamespaceUsage \cup {Min(FreeIdx)}
             /\ mLastError' = "OK" => last'.ns = Min(FreeIdx)
             /\ FlashIdx(flash', last'.key) = {Min(FreeIdx)}
       /\ (last'.nomem = 0 /\ FreeIdx # {} /\ mLastError' # "NOT_ENOUGH_SPACE")
             => mNamespaces' # mNamespaces

\* C12: createOrOpenNamespace(name, canCreate = true) for a new name issues
\* the lowest index of 1..254 that is free in the bitmap, never 0 or 255; as
\* many names can be created as there are indices, and the next creation
\* fails with NOT_ENOUGH_SPACE, writes no item and leaves the table and the
\* bitmap as they were.
C12_LowestFreeIndex ==
    /\ [](\A a \in 1..Len(mNamespaces) : mNamespaces[a].mIndex \in 1..NsCount)
    /\ [][C12_Step]_vars

\* All indices are in use and the creation of one more name has failed.
C12_Witness ==
    /\ last.op = "open"
    /\ last.sub = "create"
    /\ mLastError = "NOT_ENOUGH_SPACE"
    /\ last.nprog = 0
    /\ Len(mNamespaces) = NsCount
    /\ \A a \in 1..Len(mNamespaces) : mNamespaces[a].mName # last.key

\* C13: every item next() yields, for any namespace filter and for none, is
\* an item of a user: its own nsIndex is not 0, its datatype is not BLOB_IDX,
\* and a BLOB_DATA chunk has chunk index VER_0_OFFSET or VER_1_OFFSET.
C13_YieldsUserItems ==
    (last.op = "next" /\ last.ok) =>
        /\ iter.item.ns # NS_INDEX
        /\ iter.item.dt # "BLOB_IDX"
        /\ iter.item.dt = "BLOB_DATA" => iter.item.ci \in {VER_0_OFFSET, VER_1_OFFSET}

\* The items written into namespace nsIndex, in the order of the calls.
WrittenTo(nsIndex) == SelectSeq(written.items, LAMBDA w : w.ns = nsIndex)

\* What findEntry(name, ANY) yields for the a-th entry of the table.
YieldedFor(a) ==
    IterAll(flash, ItemIterator(Context, Storage, mNamespaces[a].mName, "ANY"))

\* C14: after items with fresh keys were written into the namespaces in any
\* interleaving, nothing erased or overwritten, findEntry(name, ANY) yields
\* the items of that namespace, each once, none of another namespace, in
\* the order they were written, on whatever pages they are.
C14_IterationInWriteOrder ==
    (mState = "ACTIVE" /\ written.clean) =>
        \A a \in 1..Len(mNamespaces) :
            /\ Len(YieldedFor(a)) = Len(WrittenTo(mNamespaces[a].mIndex))
            /\ \A k \in 1..Len(YieldedFor(a)) :
                  /\ YieldedFor(a)[k].ns = mNamespaces[a].mIndex
                  /\ YieldedFor(a)[k].key = WrittenTo(mNamespaces[a].mIndex)[k].key
                  /\ YieldedFor(a)[k].dt =
                        IF WrittenTo(mNamespaces[a].mIndex)[k].dt = "BLOB"
                        THEN "BLOB_DATA"
                        ELSE WrittenTo(mNamespaces[a].mIndex)[k].dt

\* Two namespaces were written in turn, and the items of one of them are on
\* two pages.
C14_Witness ==
    /\ mState = "ACTIVE"
    /\ written.clean
    /\ Len(written.items) >= 3
    /\ written.items[1].ns # written.items[2].ns
    /\ written.items[3].ns = written.items[1].ns
    /\ \E p1 \in WrittenAt(flash, written.items[1].ns, "ANY", NullKey) :
       \E p2 \in WrittenAt(flash, written.items[1].ns, "ANY", NullKey) :
          p1[1] # p2[1]

\* The step is one of the calls on a Storage that is not ACTIVE (open_handle
\* with a name).
C15_Call(ops) ==
    /\ mState # "ACTIVE"
    /\ last'.op \in ops
    /\ last'.key # NullKey

C15_Refused ==
    /\ mLastError' = "NOT_INITIALIZED"
    /\ ~last'.ok
    /\ flash' = flash
    /\ mNamespaces' = mNamespaces
    /\ mNamespaceUsage' = mNamespaceUsage

\* C15: writeItem, readItem, eraseItem, eraseNamespace, getItemDataSize,
\* createOrOpenNamespace, open_handle, calcEntriesInNamespace and fillStats
\* on a Storage whose state is not ACTIVE fail with NOT_INITIALIZED and
\* change neither the flash nor the namespace table.
C15_NotInitialized ==
    [][C15_Call({"write", "read", "erase", "erasens", "size", "open", "handle",
                 "calc", "stats"}) => C15_Refused]_vars

\* C16: PAGE_FULL is never surfaced: after writeItem (scalars and blobs),
\* eraseItem, readItem and init have returned, lastError is not PAGE_FULL; a
\* write that finds no room ends with NOT_ENOUGH_SPACE.
C16_PageFullNotSurfaced ==
    /\ mLastError # "PAGE_FULL"
    /\ (last.op = "write" /\ ~last.ok /\ last.nomem = 0 /\ ~last.af)
          => mLastError \in {"NOT_ENOUGH_SPACE", "VALUE_TOO_LONG", "INVALID_STATE"}

\* A scalar found no room on the current page, a new page was requested,
\* and the call ended with NOT_ENOUGH_SPACE.
C16_Witness ==
    /\ last.op = "write"
    /\ last.dt # "BLOB"
    /\ mLastError = "NOT_ENOUGH_SPACE"
    /\ flash.pg[Last(flash.ord)].st = "ACTIVE"
    /\ last.nprog > 0

\* open_handle counts the handle it returns and no other.
C17_Counted ==
    last'.op = "handle" =>
        /\ last'.ok <=> mLastError' = "OK"
        /\ mHandleCount' = IF last'.ok THEN mHandleCount + 1 ELSE mHandleCount

\* init with handles open changes nothing and sets INVALID_STATE.
C17_InitRefused ==
    (last'.op = "init" /\ mHandleCount # 0) =>
        /\ mLastError' = "INVALID_STATE"
        /\ mHandleCount' = mHandleCount
        /\ mState' = mState
        /\ mNamespaces' = mNamespaces
        /\ mNamespaceUsage' = mNamespaceUsage
        /\ flash' = flash

\* C17, as the code has it: a successful open_handle increases the handle
\* count by one, a failed one leaves it; while the count is not zero init
\* reaches assert(false), which stops a build with assertions, and in a
\* build without them init fails with INVALID_STATE; in both the state of
\* the Storage, the namespace table and the flash are unchanged.
C17_HandleCount ==
    [][/\ C17_Counted
       /\ C17_InitRefused
       /\ (last'.op = "init" /\ mHandleCount # 0) => last'.af]_vars

\* C17 as stated: while the count is not zero, init returns false with
\* INVALID_STATE (no assertion stops it) and changes nothing.
C17_InitFailsInvalidState ==
    [][/\ C17_Counted
       /\ C17_InitRefused
       /\ (last'.op = "init" /\ mHandleCount # 0) => ~last'.af]_vars

\* init was called with handles open on a Storage holding a namespace.
C17_Witness ==
    /\ last.op = "init"
    /\ mHandleCount = MaxHandles
    /\ mLastError = "INVALID_STATE"
    /\ mState = "ACTIVE"
    /\ Len(mNamespaces) > 0

\* C18: on a Storage that is not mutated the sequence of the iterator is
\* finite and restartable: next() returns false after at most as many items
\* as the flash has entries, once it has returned false it returns false
\* again, and after reset() the iterator findEntry returned yields the
\* sequence it yields without the reset.
C18_FiniteRestartable ==
    iter.live =>
        /\ Len(IterAll(flash, iter)) <= PageCount * EntryCount
        /\ (last.op = "next" /\ ~last.ok) => ~IterNext(flash, iter).ret
        /\ last.op = "find" => IterAll(flash, IterReset(iter)) = IterAll(flash, iter)

\* C19: after every call that follows a successful init, whether it
\* succeeded or failed, the tail page of the page list is ACTIVE and every
\* other page is FULL or UNINITIALIZED.
C19_TailPageActive ==
    (mState = "ACTIVE" /\ last.op # "none") =>
        /\ flash.pg[Last(flash.ord)].st = "ACTIVE"
        /\ \A s \in Sectors \ {Last(flash.ord)} :
              flash.pg[s].st \in {"FULL", "UNINITIALIZED"}

\* C20: every BLOB_IDX that writeMultiPageBlob wrote has at most
\* maxPages = min(pageCount - 1, (CHUNK_ANY - 1) / 2) chunks and
\* chunkStart + chunkCount <= CHUNK_ANY, also when the first chunk went to
\* the tailroom of a used page; the chunk indices stay in the range of the
\* blob's version.
C20_ChunkCountBounded ==
    \A pl \in Places(flash) :
       \A it \in {ItemAt(flash, pl)} :
          (it.es = "WRITTEN" /\ it.dt = "BLOB_IDX") =>
             /\ it.idx.chunkCount <= Min2(PageCount - 1, (CHUNK_ANY - 1) \div 2)
             /\ it.idx.chunkStart + it.idx.chunkCount <= CHUNK_ANY
             /\ \A k \in 0..(it.idx.chunkCount - 1) :
                   IF it.idx.chunkStart = VER_0_OFFSET
                   THEN it.idx.chunkStart + k < VER_1_OFFSET
                   ELSE it.idx.chunkStart + k < CHUNK_ANY

\* The chunkStart of the WRITTEN indices of a blob key.
IdxStarts(f, ns, key) ==
    {ItemAt(f, pl).idx.chunkStart : pl \in WrittenAt(f, ns, "BLOB_IDX", key)}

\* C21: the first blob of a key is written with chunkStart VER_0_OFFSET; a
\* later successful writeItem(BLOB) with other content than the last one
\* written leaves one index, whose chunkStart is the other offset than that
\* of the index it replaces;
\* a write of the stored content leaves the flash as it is.
C21_VersionToggle ==
    [][(last'.op = "write" /\ last'.dt = "BLOB" /\ last'.ok)
       => IF IdxStarts(flash, last'.ns, last'.key) = {}
          THEN IdxStarts(flash', last'.ns, last'.key) = {VER_0_OFFSET}
          ELSE IF \E sl \in Slots : /\ sl.ns = last'.ns /\ sl.dt = "BLOB"
                                    /\ sl.key = last'.key
                                    /\ expect[sl] = Bytes(last'.id, last'.size)
          THEN flash' = flash
          ELSE \E p \in IdxStarts(flash, last'.ns, last'.key) :
                  /\ IdxStarts(flash, last'.ns, last'.key) = {p}
                  /\ IdxStarts(flash', last'.ns, last'.key)
                       = {IF p = VER_0_OFFSET THEN VER_1_OFFSET ELSE VER_0_OFFSET}]_vars

\* The chunk indices of the WRITTEN chunks of a blob key.
ChunkIndices(f, ns, key) ==
    {ItemAt(f, pl).ci : pl \in WrittenAt(f, ns, "BLOB_DATA", key)}

\* The flash images of a call, from the one it starts with.
Images(u) == <<flash>> \o Run(Context, u).tr

\* No index WRITTEN in image g covers a chunk index that is WRITTEN in
\* image f and not in g.
KeepsCoveredChunks(f, g, ns, key) ==
    \A px \in WrittenAt(g, ns, "BLOB_IDX", key) :
       \A x \in {ItemAt(g, px).idx} :
          \A ci \in x.chunkStart..(x.chunkStart + x.chunkCount - 1) :
             ci \in ChunkIndices(f, ns, key) => ci \in ChunkIndices(g, ns, key)

\* C22: eraseMultiPageBlob erases the index before the chunks: in every
\* intermediate flash image of an eraseItem of a blob and of a successful
\* overwrite of a blob, no WRITTEN index covers a chunk that the step before
\* has erased.
C22_IndexErasedFirst ==
    [][(/\ last'.dt = "BLOB"
        /\ last'.op = "erase" \/ (last'.op = "write" /\ last'.ok))
       => \A u \in {m \in Mutations :
                      /\ m.op = last'.op /\ m.sl.ns = last'.ns /\ m.sl.dt = "BLOB"
                      /\ m.sl.key = last'.key /\ m.id = last'.id
                      /\ m.size = last'.size /\ m.nomem = last'.nomem} :
             \A tr \in {Images(u)} :
                \A k \in 2..Len(tr) :
                   KeepsCoveredChunks(tr[k - 1], tr[k], last'.ns, last'.key)]_vars

\* An eraseItem has erased the index and the two chunks of a blob.
C22_Witness ==
    /\ last.op = "erase" /\ last.dt = "BLOB" /\ last.ok
    /\ last.nprog = 3
    /\ Len(last.was) = 1 /\ last.was[1].len > CHUNK_MAX_SIZE

\* The WRITTEN indices of a blob key that miss a chunk of their range.
Incomplete(f, ns, key) ==
    {px \in WrittenAt(f, ns, "BLOB_IDX", key) :
        \E x \in {ItemAt(f, px).idx} :
           \E ci \in x.chunkStart..(x.chunkStart + x.chunkCount - 1) :
              ci \notin ChunkIndices(f, ns, key)}

\* C23: readItem(BLOB) of a key whose WRITTEN index misses a chunk, with no
\* BLOB item of the format without index, fails with NOT_FOUND and leaves
\* the index and the chunks of its range ERASED; the next readItem fails
\* with NOT_FOUND again and the next writeItem(BLOB) writes VER_0_OFFSET.
C23_IncompleteBlobCleanup ==
    [][(/\ last'.op = "read" /\ last'.dt = "BLOB"
        /\ Incomplete(flash, last'.ns, last'.key) # {}
        /\ WrittenAt(flash, last'.ns, "BLOB", last'.key) = {})
       => /\ ~last'.ok
          /\ mLastError' = "NOT_FOUND"
          /\ WrittenAt(flash', last'.ns, "BLOB_IDX", last'.key) = {}
          /\ \A px \in WrittenAt(flash, last'.ns, "BLOB_IDX", last'.key) :
                \A x \in {ItemAt(flash, px).idx} :
                   \A ci \in x.chunkStart..(x.chunkStart + x.chunkCount - 1) :
                      ci \notin ChunkIndices(flash', last'.ns, last'.key)
          /\ ReadItem(Ctx(flash'), last'.ns, "BLOB", last'.key,
                      GetItemDataSize(Ctx(flash'), last'.ns, "BLOB",
                                      last'.key).dataSize).err = "NOT_FOUND"
          /\ \A id \in Buffers : \A size \in BlobSizes :
                \A w \in {WriteItem(Ctx(flash'), last'.ns, "BLOB", last'.key,
                                    id, size, 0)} :
                   w.err = "OK" =>
                      IdxStarts(Snap(w), last'.ns, last'.key) = {VER_0_OFFSET}]_vars

\* A readItem has found an index with a missing chunk and erased it.
C23_Witness ==
    /\ last.op = "read" /\ last.dt = "BLOB" /\ ~last.ok
    /\ last.nprog > 0
    /\ mLastError = "NOT_FOUND"
    /\ WrittenAt(flash, last.ns, "BLOB_IDX", last.key) = {}

\* The number of pages that become the ACTIVE tail in a sequence of images.
Activations(tr) ==
    Cardinality({k \in 2..Len(tr) : Len(tr[k].ord) > Len(tr[k - 1].ord)})

\* C24: a writeItem of a type other than BLOB makes at most one new page
\* ACTIVE; if it fails after the new page was requested successfully, the
\* retry did not fit and the error is NOT_ENOUGH_SPACE; the stored item stays
\* WRITTEN in every flash image of the call until the new one is written, and
\* after a failed call it reads as before.
C24_SingleRetryKeepsOld ==
    [][(last'.op = "write" /\ last'.dt # "BLOB")
       => \A u \in {m \in Mutations :
                      /\ m.op = "write" /\ m.sl.ns = last'.ns /\ m.sl.dt = last'.dt
                      /\ m.sl.key = last'.key /\ m.id = last'.id
                      /\ m.size = last'.size /\ m.nomem = last'.nomem} :
             \A tr \in {Images(u)} :
                /\ Activations(tr) <= 1
                /\ (~last'.ok /\ Activations(tr) = 1)
                      => mLastError' = "NOT_ENOUGH_SPACE"
                /\ WrittenAt(flash, last'.ns, last'.dt, last'.key) # {}
                      => \A k \in 1..Len(tr) :
                            WrittenAt(tr[k], last'.ns, last'.dt, last'.key) # {}
                /\ ~last'.ok
                      => VisibleAt(flash', last'.ns, last'.dt, last'.key)
                           = VisibleAt(flash, last'.ns, last'.dt, last'.key)]_vars

\* An overwrite of a stored item fails with NOT_ENOUGH_SPACE after the page
\* was marked full, a new page was made ACTIVE and the retry found it full.
C24_Witness ==
    /\ last.op = "write" /\ last.dt # "BLOB" /\ ~last.ok
    /\ last.was # <<>>
    /\ last.nprog >= 2
    /\ mLastError = "NOT_ENOUGH_SPACE"
    /\ VisibleAt(flash, last.ns, last.dt, last.key) = last.was

\* The passes of the loop of writeMultiPageBlob, from its first state.
RECURSIVE BlobPasses(_, _, _, _, _, _, _)
BlobPasses(w, ns, key, id, dataSize, chunkStart, n) ==
    IF n > MaxLoop \/ w.out # "continue" THEN <<w>>
    ELSE <<w>> \o BlobPasses(WriteBlobPass(w, ns, key, id, dataSize, chunkStart, 0),
                             ns, key, id, dataSize, chunkStart, n + 1)

\* The erased entries of the pages in use.
RECURSIVE ErasedTotal(_, _)
ErasedTotal(c, k) ==
    IF k > Len(c.ord) THEN 0
    ELSE ErasedEntryCount(c.pg[c.ord[k]]) + ErasedTotal(c, k + 1)

\* Pass v follows pass w: it has left the loop, or it has written a chunk
\* and less is left to write, or it has skipped a page and the new page is
\* empty or the flash has fewer erased entries for garbage collection.
PassProgress(w, v) ==
    \/ v.out # "continue"
    \/ /\ v.chunkCount = w.chunkCount + 1
       /\ v.remainingSize < w.remainingSize
    \/ /\ v.chunkCount = 0
       /\ v.remainingSize = w.remainingSize
       /\ \/ GetVarDataTailroom(v.c.pg[GetCurrentPage(v.c)]) = CHUNK_MAX_SIZE
          \/ ErasedTotal(v.c, 1) < ErasedTotal(w.c, 1)

FlashTable(f) ==
    {<<ItemAt(f, pl).key, ItemAt(f, pl).pay.id>> :
        pl \in WrittenAt(f, NS_INDEX, "U8", NullKey)}

\* The {name, index} pairs of the table in memory.
MemTable(nss) == {<<nss[a].mName, nss[a].mIndex>> : a \in 1..Len(nss)}

C26_Refines ==
    mState = "ACTIVE" =>
       /\ MemTable(mNamespaces) = FlashTable(flash)
       /\ Cardinality(FlashTable(flash)) = Len(mNamespaces)
       /\ mNamespaceUsage = {p[2] : p \in FlashTable(flash)} \cup {0, 255}

C26_Step ==
    (mState = "ACTIVE" /\ last'.op \in {"open", "handle"}) =>
       /\ FlashTable(flash') = FlashTable(flash)
             => /\ mNamespaces' = mNamespaces
                /\ mNamespaceUsage' = mNamespaceUsage
       /\ (last'.sub = "lookup" \/ \E p \in MemTable(mNamespaces) : p[1] = last'.key)
             => flash' = flash

\* C26: while the Storage is ACTIVE the names and indices of the table in
\* memory are those of the WRITTEN namespace items on flash and the bitmap
\* holds their indices, 0 and 255; a createOrOpenNamespace or open_handle
\* that writes no namespace item changes neither table nor bitmap, and
\* opening an existing name or a name that may not be created writes nothing.
C26_TableRefinesFlash == [](C26_Refines) /\ [][C26_Step]_vars

\* Writing the item of a new namespace has failed.
C26_Witness ==
    /\ mState = "ACTIVE"
    /\ last.op \in {"open", "handle"} /\ last.sub = "create"
    /\ last.nomem = 0
    /\ mLastError \notin {"OK", "INVALID_ARG"}
    /\ \A p \in MemTable(mNamespaces) : p[1] # last.key
====
